---------------------------- MODULE Spec2Model ----------------------------
(***************************************************************************)
(* A model of kptv-sync: the filter engine (src/src/sync/filter.py) and    *)
(* the provider synchronisation of src/src/sync/sync.py with the           *)
(* repository calls of src/src/sync/data.py and src/src/db/db.py.          *)
(*                                                                         *)
(* Text is a sequence of one-character strings.  Regular expressions are   *)
(* modelled on the subset made of literal characters, ".", "^", "$" and    *)
(* an unbalanced "(" (which does not compile).                             *)
(***************************************************************************)
EXTENDS Integers, Sequences, FiniteSets, TLC

\* ------------------------------------------------------------- bounds
\* the longest rule list and the largest stream set handed to the filter
MaxRules == 3
MaxStreams == 2

\* ------------------------------------------------------------- text
UpperCase == <<"A","B","C","D","E","F","G","H","I","J","K","L","M",
               "N","O","P","Q","R","S","T","U","V","W","X","Y","Z">>
LowerCase == <<"a","b","c","d","e","f","g","h","i","j","k","l","m",
               "n","o","p","q","r","s","t","u","v","w","x","y","z">>

\* str.lower() on one character, and the case folding of regex.IGNORECASE
lower_char(c) ==
    IF \E i \in 1..26 : UpperCase[i] = c
    THEN LowerCase[CHOOSE i \in 1..26 : UpperCase[i] = c]
    ELSE c

\* str.lower()
str_lower(s) == [i \in 1..Len(s) |-> lower_char(s[i])]

\* Python's `a in b` on strings
str_in(a, b) ==
    \E k \in 0..(Len(b) - Len(a)) : \A j \in 1..Len(a) : b[k + j] = a[j]

\* ------------------------------------------------------------- regex
\* regex.compile( pattern, regex.IGNORECASE ): TRUE when the pattern compiles.
\* A "(" never closed is "missing )"; a ")" never opened is "unbalanced parenthesis".
RECURSIVE paren_depth_ok(_, _, _)
paren_depth_ok(pattern, i, depth) ==
    IF i > Len(pattern) THEN depth = 0
    ELSE IF pattern[i] = "(" THEN paren_depth_ok(pattern, i + 1, depth + 1)
    ELSE IF pattern[i] = ")" THEN depth > 0 /\ paren_depth_ok(pattern, i + 1, depth - 1)
    ELSE paren_depth_ok(pattern, i + 1, depth)

regex_compile_ok(pattern) == paren_depth_ok(pattern, 1, 0)

\* the compiled pattern matched at text offset k (k characters consumed), from
\* pattern position i on
RECURSIVE regex_match_at(_, _, _, _)
regex_match_at(pattern, i, text, k) ==
    IF i > Len(pattern) THEN TRUE
    ELSE IF pattern[i] = "^" THEN k = 0 /\ regex_match_at(pattern, i + 1, text, k)
    ELSE IF pattern[i] = "$" THEN k = Len(text) /\ regex_match_at(pattern, i + 1, text, k)
    ELSE IF pattern[i] = "." THEN k < Len(text) /\ regex_match_at(pattern, i + 1, text, k + 1)
    ELSE /\ k < Len(text)
         /\ lower_char(text[k + 1]) = lower_char(pattern[i])
         /\ regex_match_at(pattern, i + 1, text, k + 1)

\* bool( _pattern.findall( text ) ): at least one match, at any offset
regex_findall_nonempty(pattern, text) ==
    \E k \in 0..Len(text) : regex_match_at(pattern, 1, text, k)

\* a compile failure returning TRUE instead of FALSE
match_pattern_FailClosed(pattern, text) ==
    IF regex_compile_ok(pattern)
    THEN regex_findall_nonempty(pattern, text)
    ELSE TRUE

\* KP_Filter._match_pattern: the try block, and FALSE from the except block
match_pattern(pattern, text) ==
    IF regex_compile_ok(pattern)
    THEN regex_findall_nonempty(pattern, text)
    ELSE FALSE

\* ------------------------------------------------------------- filter
\* the any( ... ) over the rules of kind 0
is_included(stream, filters) ==
    \E i \in 1..Len(filters) :
        /\ filters[i].sf_type_id = 0
        /\ match_pattern(filters[i].sf_filter, stream.stream_name)

\* one iteration of the exclude loop: does this rule set should_exclude
rule_excludes(filter_rule, stream) ==
    IF filter_rule.sf_type_id = 1
    THEN str_in(str_lower(filter_rule.sf_filter), str_lower(stream.stream_name))
    ELSE IF filter_rule.sf_type_id \in {2, 3}
    THEN match_pattern(filter_rule.sf_filter,
                       IF filter_rule.sf_type_id = 2
                       THEN stream.stream_name ELSE stream.stream_url)
    ELSE FALSE

\* the loop without its break statements: the last rule decides
RECURSIVE exclude_loop_NoBreak(_, _, _)
exclude_loop_NoBreak(stream, filters, j) ==
    IF j > Len(filters) THEN [should_exclude |-> FALSE, tried |-> Len(filters)]
    ELSE IF j = Len(filters)
    THEN [should_exclude |-> rule_excludes(filters[j], stream), tried |-> j]
    ELSE exclude_loop_NoBreak(stream, filters, j + 1)

\* `for filter_rule in db_filters` from rule j on: should_exclude, and the index
\* of the last rule the loop looked at
RECURSIVE exclude_loop(_, _, _)
exclude_loop(stream, filters, j) ==
    IF j > Len(filters) THEN [should_exclude |-> FALSE, tried |-> Len(filters)]
    ELSE IF rule_excludes(filters[j], stream)
    THEN [should_exclude |-> TRUE, tried |-> j]
    ELSE exclude_loop(stream, filters, j + 1)

\* the body of the loop over normalized_data: is the stream put in filtered_streams
stream_kept(stream, filters) ==
    IF is_included(stream, filters) THEN TRUE
    ELSE ~exclude_loop(stream, filters, 1).should_exclude

\* the excludes consulted before the includes
stream_kept_ExcludeFirst(stream, filters) ==
    IF exclude_loop(stream, filters, 1).should_exclude THEN FALSE
    ELSE TRUE

\* an empty rule list returning an empty result
filter_streams_EmptyOnNoRules(data, filters) ==
    [id \in {k \in DOMAIN data : filters # <<>> /\ stream_kept(data[k], filters)} |-> data[id]]

\* the include test dropped from the loop body
filter_streams_ExcludeFirst(data, filters) ==
    IF filters = <<>> THEN data
    ELSE [id \in {k \in DOMAIN data : stream_kept_ExcludeFirst(data[k], filters)} |-> data[id]]

\* KP_Filter.filter_streams: normalized_data is a dict, a function of stream ids
filter_streams(data, filters) ==
    IF filters = <<>> THEN data
    ELSE [id \in {k \in DOMAIN data : stream_kept(data[k], filters)} |-> data[id]]

\* the number of rules the exclude loop looked at for one stream (0: never entered)
rules_tried(stream, filters) ==
    IF filters = <<>> \/ is_included(stream, filters) THEN 0
    ELSE exclude_loop(stream, filters, 1).tried

\* ------------------------------------------------------------- inputs
\* canonical streams a provider batch can hold, by stream id
StreamPool ==
    [ news  |-> [stream_name |-> <<"N","e","w","s">>,
                 stream_url  |-> <<"x","/","c","n","n">>],
      flash |-> [stream_name |-> <<"N","e","w","s","f","l","a","s","h">>,
                 stream_url  |-> <<"x","/","b","b","c">>],
      cnn   |-> [stream_name |-> <<"C","N","N">>,
                 stream_url  |-> <<"x","/","c","n","n">>],
      bbc   |-> [stream_name |-> <<"b","b","c">>,
                 stream_url  |-> <<"x","/","n","e","w","s">>] ]

StreamIds == DOMAIN StreamPool

\* rows of stream_filters: sf_type_id 0..3, and patterns that do not compile
RulePool ==
    { [sf_type_id |-> 0, sf_filter |-> <<"^","n","e","w","s","$">>],
      [sf_type_id |-> 0, sf_filter |-> <<"(","n","e","w","s">>],
      [sf_type_id |-> 1, sf_filter |-> <<"N","E","W","S">>],
      [sf_type_id |-> 2, sf_filter |-> <<"F","l","a","s","h","$">>],
      [sf_type_id |-> 2, sf_filter |-> <<"(","c","n","n">>],
      [sf_type_id |-> 3, sf_filter |-> <<"^","X","/","C",".","N">>],
      [sf_type_id |-> 3, sf_filter |-> <<"n","e","w","s",")">>] }

\* ------------------------------------------------------------- repository
\* rows of stream_providers: id, u_id (the owning user), sp_name
ProviderPool ==
    [ p1 |-> [id |-> "p1", u_id |-> "u7", sp_name |-> "alpha"],
      p2 |-> [id |-> "p2", u_id |-> "u7", sp_name |-> "beta"],
      p3 |-> [id |-> "p3", u_id |-> "u8", sp_name |-> "gamma"] ]

ProviderIds == DOMAIN ProviderPool

\* the active rows of stream_filters, by owning user: u7 has an include rule and
\* an exclude rule, u8 has none
stream_filters ==
    [ u7 |-> << [sf_type_id |-> 0, sf_filter |-> <<"^","n","e","w","s","$">>],
                [sf_type_id |-> 1, sf_filter |-> <<"N","E","W","S">>] >>,
      u8 |-> << >> ]

\* what KP_Get.get_streams can return for a provider
FetchPool ==
    { [id \in {} |-> StreamPool[id]],
      [id \in {"news", "flash"} |-> StreamPool[id]],
      [id \in {"cnn"} |-> StreamPool[id]] }

\* the max_threads argument of KP_Sync: None, or a worker count
ThreadArgs == { << >>, <<2>> }

NoLock == "none"
MainThread == "main"
NoResult == [pending |-> TRUE]
NoFilters == << [absent |-> TRUE] >>

\* ------------------------------------------------------------- thread count
\* KP_Sync._determine_thread_count
\* (the argument is << >> for None and <<n>> for the integer n)
determine_thread_count_NoFloor(max_threads_arg, default) ==
    IF max_threads_arg # << >>
    THEN (IF max_threads_arg[1] > 16 THEN 16 ELSE max_threads_arg[1])
    ELSE default
determine_thread_count(max_threads_arg, default) ==
    IF max_threads_arg # << >>
    THEN (IF max_threads_arg[1] > 16 THEN 16
          ELSE IF max_threads_arg[1] < 1 THEN 1 ELSE max_threads_arg[1])
    ELSE default

\* os.cpu_count( ) or 1 (0 stands for None: the count is unknown)
cpu_count_or_1(count) == IF count = 0 THEN 1 ELSE count

\* the most processors the machine is given
MaxCpu == 6

\* the largest worker count KP_Sync is given
MaxThreadsArg == 18

\* what os.cpu_count( ) returns
CpuCounts == 0..MaxCpu

\* the max_threads arguments KP_Sync( ) is given: None or an integer
ThreadArgPool == { << >> } \cup { <<n>> : n \in -2..MaxThreadsArg }

\* min( 8, max( 4, cpu_count * 2 ) )
default_threads(cpu_count) ==
    LET twice == cpu_count * 2
        atleast == IF twice > 4 THEN twice ELSE 4
    IN IF atleast < 8 THEN atleast ELSE 8

\* ------------------------------------------------------------- more text
Digits == <<"0","1","2","3","4","5","6","7","8","9">>

\* str( n ) for a natural number
RECURSIVE decimal(_)
decimal(n) ==
    IF n < 10 THEN <<Digits[n + 1]>>
    ELSE decimal(n \div 10) \o <<Digits[(n % 10) + 1]>>

SetMin(S) == CHOOSE x \in S : \A y \in S : x <= y
SetMax(S) == CHOOSE x \in S : \A y \in S : x >= y

\* str.startswith, str.endswith
startswith(s, prefix) ==
    Len(s) >= Len(prefix) /\ \A j \in 1..Len(prefix) : s[j] = prefix[j]

endswith(s, suffix) ==
    Len(s) >= Len(suffix)
        /\ \A j \in 1..Len(suffix) : s[Len(s) - Len(suffix) + j] = suffix[j]

\* str.strip( chars ): the characters of `chars` removed at both ends
strip_chars(s, chars) ==
    LET keep == {i \in 1..Len(s) : s[i] \notin chars}
    IN IF keep = {} THEN << >> ELSE SubSeq(s, SetMin(keep), SetMax(keep))

\* the whitespace str.strip( ) removes
Whitespace == {" ", "\t", "\n", "\r"}

\* str.strip( )
str_strip(s) == strip_chars(s, Whitespace)

\* s[ k: ] for a 0-based k
str_from(s, k) == IF k >= Len(s) THEN << >> ELSE SubSeq(s, k + 1, Len(s))

\* s[ :k ] for a 0-based k
str_upto(s, k) == IF k <= 0 THEN << >> ELSE SubSeq(s, 1, IF k < Len(s) THEN k ELSE Len(s))

\* str.rfind( c ): the 0-based index of the last c, -1 when there is none
str_rfind(s, c) ==
    LET at == {i \in 1..Len(s) : s[i] = c}
    IN IF at = {} THEN -1 ELSE SetMax(at) - 1

\* any( x in s for x in words )
any_in(words, s) == \E x \in words : str_in(x, s)

\* re.sub( r'[^a-zA-Z0-9]', '', s )
IsAlnum(c) ==
    \/ \E i \in 1..26 : UpperCase[i] = c \/ LowerCase[i] = c
    \/ \E i \in 1..10 : Digits[i] = c

RECURSIVE strip_non_alnum(_)
strip_non_alnum(s) ==
    IF s = << >> THEN << >>
    ELSE (IF IsAlnum(Head(s)) THEN <<Head(s)>> ELSE << >>) \o strip_non_alnum(Tail(s))

\* re.compile( key + r'="([^"]*)"' ).search( attrs ): whether it matched, and group( 1 )
attr_search(key, attrs) ==
    LET open == key \o <<"=", "\"">>
        starts == {k \in 0..(Len(attrs) - Len(open)) :
                      /\ \A j \in 1..Len(open) : attrs[k + j] = open[j]
                      /\ \E q \in (k + Len(open) + 1)..Len(attrs) : attrs[q] = "\""}
    IN IF starts = {} THEN [matched |-> FALSE, group1 |-> << >>]
       ELSE LET k == SetMin(starts)
                first == k + Len(open) + 1
                close == SetMin({q \in first..Len(attrs) : attrs[q] = "\""})
            IN [matched |-> TRUE, group1 |-> SubSeq(attrs, first, close - 1)]

\* ------------------------------------------------------------- playlist parser
ExtinfMarker == <<"#","E","X","T","I","N","F",":","-","1">>
DefaultIconUrl == <<"h","t","t","p","s",":","/","/","c","d","n",".","k","e","v","p",".","u","s","/","k","p","/","k","e","v","i","n","p","i","r","n","i","e","-","f","a","v","i","c","o","n","-","i","n","i","t","i","a","l","s",".","s","v","g">>
NoStreamData == [absent |-> TRUE]

\* the 24/7 keyword left out of the name test
SeriesNameWords_No247 == {<<"s","e","r","i","e","s">>, <<"s","h","o","w","s">>, <<"s","h","o","w">>}

\* the keyword lists of _parse_extinf_line and of the URL test of _parse_m3u
SeriesNameWords == {<<"2","4","/","7">>, <<"s","e","r","i","e","s">>, <<"s","h","o","w","s">>, <<"s","h","o","w">>}
SeriesGroupWords == {<<"s","e","r","i","e","s">>, <<"s","h","o","w","s">>}
VodNameWords == {<<"m","o","v","i","e">>, <<"m","o","v","i","e","s">>, <<"v","o","d">>}
VodGroupWords == {<<"m","o","v","i","e","s">>, <<"v","o","d">>}
SeriesUrlWords == {<<"/","s","e","r","i","e","s","/">>, <<"/","s","h","o","w","s","/">>, <<"/","s","h","o","w","/">>}
VodUrlWords == {<<"/","m","o","v","i","e","/">>, <<"/","m","o","v","i","e","s","/">>, <<"/","v","o","d","/">>}

\* f"Stream_{line_num}"
default_name(line_num) == <<"S","t","r","e","a","m","_">> \o decimal(line_num)

\* KP_Get._parse_extinf_line
parse_extinf_line(extinf_data, provider, line_num) ==
    IF ~startswith(extinf_data, ExtinfMarker) THEN NoStreamData
    ELSE
    LET data == str_strip(str_from(extinf_data, 11))
        last_comma == str_rfind(data, ",")
        attrs == IF last_comma # -1 THEN str_upto(data, last_comma) ELSE data
        potential_name == IF last_comma # -1
                          THEN str_strip(str_from(data, last_comma + 1)) ELSE << >>
        name1 == IF potential_name # << >>
                 THEN str_strip(strip_chars(potential_name, {"\""}))
                 ELSE default_name(line_num)
        tvg_name == attr_search(<<"t","v","g","-","n","a","m","e">>, attrs)
        name == IF (name1 = << >> \/ name1 = default_name(line_num))
                    /\ tvg_name.matched /\ tvg_name.group1 # << >>
                THEN tvg_name.group1 ELSE name1
        group == attr_search(<<"g","r","o","u","p","-","t","i","t","l","e">>, attrs)
        tvg_id == attr_search(<<"t","v","g","-","i","d">>, attrs)
        logo == attr_search(<<"t","v","g","-","l","o","g","o">>, attrs)
        adult == attr_search(<<"a","d","u","l","t">>, attrs)
        category_id == IF group.matched /\ group.group1 # << >>
                       THEN group.group1 ELSE <<"U","n","c","a","t","e","g","o","r","i","z","e","d">>
        name_lower == str_lower(name)
        group_lower == str_lower(category_id)
    IN [ name |-> name,
         category_id |-> category_id,
         epg_channel_id |-> IF tvg_id.matched /\ tvg_id.group1 # << >>
                            THEN tvg_id.group1 ELSE name,
         stream_icon |-> IF logo.matched /\ startswith(logo.group1, <<"h","t","t","p">>)
                            /\ ~endswith(logo.group1, <<">">>)
                         THEN logo.group1 ELSE provider.default_icon,
         is_adult |-> adult.matched /\ str_lower(adult.group1) = <<"t","r","u","e">>,
         stream_type |->
             IF any_in(SeriesNameWords, name_lower) \/ any_in(SeriesGroupWords, group_lower)
             THEN 5
             ELSE IF any_in(VodNameWords, name_lower) \/ any_in(VodGroupWords, group_lower)
             THEN 3
             ELSE provider.sp_stream_type ]

\* the collision loop left out: the id is used as it is
unique_id_Overwrite(original_id, stream_id, counter, normalized) == stream_id

\* `while stream_id in normalized: stream_id = f"{original_id}_{counter}"`
RECURSIVE unique_id(_, _, _, _)
unique_id(original_id, stream_id, counter, normalized) ==
    IF stream_id \in DOMAIN normalized
    THEN unique_id(original_id, original_id \o <<"_">> \o decimal(counter),
                   counter + 1, normalized)
    ELSE stream_id

\* dict.setdefault in place of the assignment: the first record keeps the id
dict_put_KeepFirst(dict, key, value) ==
    [k \in DOMAIN dict \cup {key} |-> IF k \in DOMAIN dict THEN dict[k] ELSE value]

\* normalized[ key ] = value on a dict
dict_put(dict, key, value) ==
    [k \in DOMAIN dict \cup {key} |-> IF k = key THEN value ELSE dict[k]]

\* the state of the parse loop: the line index i (0-based), the dict, the two
\* counters; commits and skips list the marker lines (1-based) in the order
\* their entries were committed or skipped
M3uStart ==
    [i |-> 0, normalized |-> << >>, processed_count |-> 0, skipped_count |-> 0,
     commits |-> << >>, skips |-> << >>]

\* an entry given up without being counted
m3u_skip_Uncounted(st, marker) ==
    [st EXCEPT !.skips = Append(@, marker)]

\* skipped_count += 1 for the entry of the marker line
m3u_skip(st, marker) ==
    [st EXCEPT !.skipped_count = @ + 1, !.skips = Append(@, marker)]

\* a URL line was found and the marker payload parsed: the entry is committed
m3u_commit(st, stream_data, next_line, provider, marker) ==
    LET stream_type == IF any_in(SeriesUrlWords, next_line) THEN 5
                       ELSE IF any_in(VodUrlWords, next_line) THEN 3
                       ELSE stream_data.stream_type
        stream_name == stream_data.name
        stripped == str_lower(strip_non_alnum(stream_name))
        original_id == IF stripped = << >>
                       THEN <<"s","t","r","e","a","m","_">> \o decimal(st.processed_count)
                       ELSE stripped
        stream_id == unique_id(original_id, original_id, 1, st.normalized)
        row == [ stream_id |-> stream_id,
                 stream_name |-> stream_name,
                 stream_url |-> next_line,
                 cat_id |-> stream_data.category_id,
                 epg_id |-> stream_data.epg_channel_id,
                 is_adult |-> stream_data.is_adult,
                 stream_type |-> stream_type,
                 stream_group |-> IF stream_type = 5 THEN "series"
                                  ELSE IF stream_type = 3 THEN "vod" ELSE "live",
                 stream_icon |-> stream_data.stream_icon ]
    IN [st EXCEPT !.normalized = dict_put(@, stream_id, row),
                  !.processed_count = @ + 1,
                  !.commits = Append(@, [line |-> marker, stream_id |-> stream_id])]

\* a comment line taken for a continuation line
line_kind_CommentIsText(next_line) ==
    IF next_line = << >> THEN "blank"
    ELSE IF startswith(next_line, <<"h","t","t","p">>) THEN "url"
    ELSE IF startswith(next_line, <<"#","E","X","T","I","N","F">>) THEN "marker"
    ELSE "text"

\* the if / elif chain of the look-ahead loop on the stripped next line
line_kind(next_line) ==
    IF next_line = << >> THEN "blank"
    ELSE IF startswith(next_line, <<"h","t","t","p">>) THEN "url"
    ELSE IF startswith(next_line, <<"#","E","X","T","I","N","F">>) THEN "marker"
    ELSE IF startswith(next_line, <<"#">>) THEN "comment"
    ELSE "text"

\* the look-ahead loop `while i < len( lines )` after a marker line, and the
\* `if not url_found and i >= len( lines )` that follows it
RECURSIVE m3u_collect(_, _, _, _, _)
m3u_collect(lines, provider, st, extinf_data, marker) ==
    IF st.i >= Len(lines) THEN m3u_skip(st, marker)
    ELSE
    LET next_line == str_strip(lines[st.i + 1])
        kind == line_kind(next_line)
        advanced == [st EXCEPT !.i = @ + 1]
    IN IF kind = "blank"
       THEN m3u_collect(lines, provider, advanced, extinf_data, marker)
       ELSE IF kind = "url"
       THEN LET stream_data == parse_extinf_line(extinf_data, provider, st.processed_count)
            IN IF stream_data # NoStreamData
               THEN m3u_commit(advanced, stream_data, next_line, provider, marker)
               ELSE m3u_skip(advanced, marker)
       ELSE IF kind \in {"marker", "comment"}
       THEN m3u_skip(st, marker)
       ELSE m3u_collect(lines, provider, advanced,
                        extinf_data \o <<" ">> \o next_line, marker)

\* the outer loop `while i < len( lines )`
RECURSIVE m3u_scan(_, _, _)
m3u_scan(lines, provider, st) ==
    IF st.i >= Len(lines) THEN st
    ELSE
    LET line == str_strip(lines[st.i + 1])
        advanced == [st EXCEPT !.i = @ + 1]
    IN IF line = << >> THEN m3u_scan(lines, provider, advanced)
       ELSE IF startswith(line, ExtinfMarker)
       THEN m3u_scan(lines, provider,
                     m3u_collect(lines, provider, advanced, line, st.i + 1))
       ELSE m3u_scan(lines, provider, advanced)

\* KP_Get._parse_m3u on m3u_content.splitlines( ): the loop state it ends in
\* (empty or blank content returns before the loop)
parse_m3u(lines, provider) ==
    IF \A k \in 1..Len(lines) : str_strip(lines[k]) = << >>
    THEN M3uStart
    ELSE m3u_scan(lines, provider, M3uStart)

\* ------------------------------------------------------------- API normalizer
\* A JSON record is a function of the keys it has; a JSON number is written as
\* the text of its digits, JSON null as JsonNull (which no text equals).
JsonNull == <<"null">>

\* item.get( key, default )
item_get(item, key, default) == IF key \in DOMAIN item THEN item[key] ELSE default

\* `not v` for an id: absent (None), null, the empty string or the number 0
falsy(v) == v = JsonNull \/ v = << >> \/ v = <<"0">>

\* the URL templates and API endpoints of KP_Common, by stream-type group
StreamPath == [live |-> <<"/","l","i","v","e","/">>, series |-> <<"/","s","e","r","i","e","s","/">>, vod |-> <<"/","m","o","v","i","e","/">>]
ApiAction ==
    [live |-> <<"g","e","t","_","l","i","v","e","_","s","t","r","e","a","m","s">>, series |-> <<"g","e","t","_","s","e","r","i","e","s">>,
     vod |-> <<"g","e","t","_","v","o","d","_","s","t","r","e","a","m","s">>]

\* url_template % ( sp_domain, sp_username, sp_password, stream_id, ext )
stream_url_of(data_type, provider, stream_id, ext) ==
    provider.sp_domain \o StreamPath[data_type] \o provider.sp_username \o <<"/">>
        \o provider.sp_password \o <<"/">> \o stream_id \o <<".">> \o ext

\* getattr( self.common, f"api_{stream_type}" ) % ( domain, username, password )
api_endpoint(stream_type, provider) ==
    provider.sp_domain \o <<"/","p","l","a","y","e","r","_","a","p","i",".","p","h","p","?","u","s","e","r","n","a","m","e","=">> \o provider.sp_username
        \o <<"&","p","a","s","s","w","o","r","d","=">> \o provider.sp_password \o <<"&","a","c","t","i","o","n","=">>
        \o ApiAction[stream_type]

\* _series_re_pattern and _vod_re_pattern, searched in the lowercased name
SeriesRePattern == {<<"2","4","/","7">>, <<"2","4","7">>, <<"/","s","e","r","i","e","s","/">>, <<"/","s","h","o","w","s","/">>, <<"/","s","h","o","w","/">>}
VodRePattern == {<<"/","v","o","d","s","/">>, <<"/","v","o","d","/">>, <<"/","m","o","v","i","e","s","/">>, <<"/","m","o","v","i","e","/">>}

\* "ts" if provider.get( "sp_stream_type", 0 ) == 0 else "m3u8"
container_ext(provider) == IF provider.sp_stream_type = 0 THEN <<"t","s">> ELSE <<"m","3","u","8">>

item_skip == [status |-> "skip"]
item_raise == [status |-> "raise"]

\* the universal fields added by stream_data.update( ... )
with_universal(stream_data, item, data_type, provider, stream_id) ==
    [ status |-> "ok",
      stream_id |-> stream_id,
      row |-> [ stream_id |-> stream_id,
                stream_name |-> item["name"],
                stream_url |-> IF provider.sp_stream_type # 1
                               THEN stream_url_of(data_type, provider, stream_id,
                                                  container_ext(provider))
                               ELSE item_get(item, "stream_url", << >>),
                cat_id |-> stream_data.cat_id,
                epg_id |-> stream_data.epg_id,
                is_adult |-> stream_data.is_adult,
                stream_type |-> stream_data.stream_type,
                stream_group |-> stream_data.stream_group,
                stream_icon |-> stream_data.stream_icon ] ]

\* the stream kind of a `live` record: the provider's hint, or what a keyword says
live_stream_type(stream_name, provider) ==
    IF any_in(SeriesRePattern, stream_name) THEN 5
    ELSE IF any_in(VodRePattern, stream_name) THEN 3
    ELSE provider.sp_stream_type

\* the body of `for item in data`: "ok" with the id and the row, "skip" for
\* `continue` (no id, or KeyError caught), "raise" for an exception the loop
\* does not catch (None.lower( ) is an AttributeError)
map_item(item, data_type, provider) ==
    LET first_id == item_get(item, "stream_id", JsonNull)
        stream_id == IF ~falsy(first_id) THEN first_id
                     ELSE item_get(item, "series_id", JsonNull)
    IN IF falsy(stream_id) THEN item_skip
       ELSE IF data_type = "live"
       THEN IF item_get(item, "name", << >>) = JsonNull THEN item_raise
            ELSE IF {"category_id", "epg_channel_id", "name"} \subseteq DOMAIN item
            THEN with_universal(
                     [ cat_id |-> item["category_id"],
                       epg_id |-> item["epg_channel_id"],
                       is_adult |-> item_get(item, "is_adult", 0) # 0,
                       stream_type |->
                           live_stream_type(str_lower(item_get(item, "name", << >>)),
                                            provider),
                       stream_group |-> "live",
                       stream_icon |-> item_get(item, "stream_icon", DefaultIconUrl) ],
                     item, data_type, provider, stream_id)
            ELSE item_skip
       ELSE IF data_type = "series"
       THEN IF {"category_id", "name"} \subseteq DOMAIN item
            THEN with_universal(
                     [ cat_id |-> item["category_id"],
                       epg_id |-> item_get(item, "tmdb", item["name"]),
                       is_adult |-> FALSE,
                       stream_type |-> 5,
                       stream_group |-> "series",
                       stream_icon |-> item_get(item, "cover", DefaultIconUrl) ],
                     item, data_type, provider, stream_id)
            ELSE item_skip
       ELSE IF data_type = "vod"
       THEN IF {"category_id", "name", "is_adult"} \subseteq DOMAIN item
            THEN with_universal(
                     [ cat_id |-> item["category_id"],
                       epg_id |-> item_get(item, "tmdb", item["name"]),
                       is_adult |-> item["is_adult"] # 0,
                       stream_type |-> 3,
                       stream_group |-> "vod",
                       stream_icon |-> item_get(item, "stream_icon", DefaultIconUrl) ],
                     item, data_type, provider, stream_id)
            ELSE item_skip
       ELSE item_skip

\* `for item in data` from record n on
RECURSIVE normalize_loop(_, _, _, _, _)
normalize_loop(data, data_type, provider, n, normalized) ==
    IF n > Len(data) THEN [raised |-> FALSE, normalized |-> normalized]
    ELSE LET mapped == map_item(data[n], data_type, provider)
         IN IF mapped.status = "raise" THEN [raised |-> TRUE, normalized |-> << >>]
            ELSE normalize_loop(data, data_type, provider, n + 1,
                     IF mapped.status = "ok"
                     THEN dict_put(normalized, mapped.stream_id, mapped.row)
                     ELSE normalized)

\* KP_Get._normalize_data on what _safe_fetch returned: a JSON string is handed
\* to _parse_m3u, `{ }` (a failed request) and `[ ]` return None, a list is mapped
normalize_data(data, data_type, provider) ==
    IF data.kind = "str"
    THEN [raised |-> FALSE, parsed_m3u |-> TRUE,
          normalized |-> parse_m3u(data.lines, provider).normalized]
    ELSE IF data.kind # "list" \/ data.items = << >>
    THEN [raised |-> FALSE, parsed_m3u |-> FALSE, normalized |-> << >>]
    ELSE [parsed_m3u |-> FALSE] @@
         normalize_loop(data.items, data_type, provider, 1, << >>)

\* ------------------------------------------------------------- get_streams
\* combined.update( data )
dict_update(dict, data) ==
    [k \in DOMAIN dict \cup DOMAIN data |-> IF k \in DOMAIN data THEN data[k] ELSE dict[k]]

\* the groups the API loop goes over
ApiGroups == <<"live", "series">>

\* the three `continue` tests on the --live, --series and --vod options
group_skipped(args, stream_type) ==
    \/ args.live /\ stream_type # "live"
    \/ args.series /\ stream_type # "series"
    \/ args.vod /\ stream_type # "vod"

\* what get_streams has done so far: the dict it returns, the requests it made
\* in order, and how many times it ran the playlist parser
GetStart == [combined |-> << >>, requested |-> << >>, m3u_parses |-> 0]

\* `for stream_type in [ 'live', 'series' ]` from group n on
RECURSIVE api_loop(_, _, _, _, _)
api_loop(provider, args, responses, n, out) ==
    IF n > Len(ApiGroups) THEN out
    ELSE
    LET stream_type == ApiGroups[n]
        data == normalize_data(responses[stream_type], stream_type, provider)
    IN IF group_skipped(args, stream_type)
       THEN api_loop(provider, args, responses, n + 1, out)
       ELSE api_loop(provider, args, responses, n + 1,
                [ combined |-> IF ~data.raised /\ DOMAIN data.normalized # {}
                               THEN dict_update(out.combined, data.normalized)
                               ELSE out.combined,
                  requested |-> Append(out.requested,
                                       [is_m3u |-> FALSE, group |-> stream_type,
                                        endpoint |-> api_endpoint(stream_type, provider)]),
                  m3u_parses |-> out.m3u_parses + (IF data.parsed_m3u THEN 1 ELSE 0) ])

\* KP_Get.get_streams: content is the text served at sp_domain, as lines
\* (<< >>: nothing received), responses what the API endpoints answer
get_streams(provider, args, content, responses) ==
    IF provider.sp_type = 1
    THEN IF provider.sp_domain = << >> THEN GetStart
         ELSE LET fetched == [GetStart EXCEPT !.requested =
                      <<[is_m3u |-> TRUE, group |-> "m3u", endpoint |-> provider.sp_domain]>>]
              IN IF content = << >> THEN fetched
                 ELSE [fetched EXCEPT !.combined = parse_m3u(content, provider).normalized,
                                      !.m3u_parses = 1]
    ELSE api_loop(provider, args, responses, 1, GetStart)

\* ------------------------------------------------------------- fetch inputs
\* the longest playlist, in lines, and the longest answer of an API endpoint
MaxLines == 5
MaxRecords == 2

\* rows of stream_providers as get_streams reads them: a playlist provider
\* (sp_type 1) and API providers with stream-format hint 0 or 1
PlaylistProvider ==
    [ sp_type |-> 1, sp_stream_type |-> 0, sp_name |-> <<"l","i","s","t">>,
      sp_domain |-> <<"h","t","t","p",":","/","/","x","/","l","i","s","t",".","m","3","u">>, sp_username |-> << >>,
      sp_password |-> << >>, default_icon |-> DefaultIconUrl ]

ApiProvider(hint) ==
    [ sp_type |-> 0, sp_stream_type |-> hint, sp_name |-> <<"a","p","i">>,
      sp_domain |-> <<"h","t","t","p",":","/","/","x">>, sp_username |-> <<"u">>,
      sp_password |-> <<"p">>, default_icon |-> DefaultIconUrl ]

GetProviders == {PlaylistProvider, ApiProvider(0), ApiProvider(1)}

\* the stream-type options of the command line: none, --live, --series, --vod
NoOptions == [live |-> FALSE, series |-> FALSE, vod |-> FALSE]
ArgSets ==
    { NoOptions, [NoOptions EXCEPT !.live = TRUE],
      [NoOptions EXCEPT !.series = TRUE], [NoOptions EXCEPT !.vod = TRUE] }

\* lines a playlist can be made of: two marker lines whose names strip to the
\* same id, a URL line, a comment line and a continuation line
LinePool ==
    { <<"#","E","X","T","I","N","F",":","-","1"," ","g","r","o","u","p","-","t","i","t","l","e","=","\"","N","e","w","s","\"",",","C","N","N">>,
      <<"#","E","X","T","I","N","F",":","-","1"," ","t","v","g","-","i","d","=","\"","c","1","\"",",","C",".","N",".","N"," ">>,
      <<"h","t","t","p",":","/","/","x","/","c","n","n",".","t","s">>,
      <<"#","E","X","T","V","L","C","O","P","T",":","x">>,
      <<" ","H","D">> }

\* whole playlists: nothing received, and the two documented scenarios
ScenarioA == << <<"#","E","X","T","I","N","F",":","-","1"," ","g","r","o","u","p","-","t","i","t","l","e","=","\"","N","e","w","s","\"",",","C","N","N">>, <<"h","t","t","p",":","/","/","x","/","c","n","n",".","t","s">> >>
ScenarioB == << <<"#","E","X","T","I","N","F",":","-","1"," ","g","r","o","u","p","-","t","i","t","l","e","=","\"","N","e","w","s","\"",",","C","N","N"," ","2","4","/","7">>, <<"h","t","t","p",":","/","/","x","/","c","n","n",".","t","s">> >>
ContentPool == { << >>, ScenarioA, ScenarioB }

\* records an API endpoint can answer with
MovieNight ==
    [ stream_id |-> <<"5">>, name |-> <<"M","o","v","i","e"," ","N","i","g","h","t">>, category_id |-> <<"G">>,
      epg_channel_id |-> <<"5">> ]

RecordPool ==
    { MovieNight,
      [ stream_id |-> <<"5">>, name |-> <<"C","N","N"," ","2","4","7">>, category_id |-> <<"G">>,
        epg_channel_id |-> <<"9">>, is_adult |-> 1 ],
      [ series_id |-> <<"5">>, name |-> <<"S","h","o","w">>, category_id |-> <<"S">> ],
      [ stream_id |-> <<"6">>, name |-> JsonNull, category_id |-> <<"G">>,
        epg_channel_id |-> <<"6">> ] }

\* what an endpoint answers: a JSON array, or a JSON string
json_list(items) == [kind |-> "list", items |-> items, lines |-> << >>]
json_str(lines) == [kind |-> "str", items |-> << >>, lines |-> lines]

VodResponse ==
    json_list(<< [ stream_id |-> <<"7">>, name |-> <<"F","i","l","m">>,
                   category_id |-> <<"V">>, is_adult |-> 0 ] >>)

\* KP_DB.call_proc as the final operations use it: what reaches the caller.
\* "ok": the procedure ran; "proc_error": cursor.callproc raised, which call_proc
\* catches, returning the row count; "db_error": KP_DB( ), the connection or the
\* commit raised, which call_proc does not catch
call_proc_raises(outcome) == outcome = "db_error"

\* ------------------------------------------------------------- rate limit
\* the clock's resolution, and the last tick the clock is followed to
TicksPerSecond == 2
MaxTime == 8

\* KP_Get.min_request_interval: 1 second
min_request_interval == 1 * TicksPerSecond

\* the provider tasks followed, and the provider row each one syncs
RateTasks == {"p1", "p2"}
RateProvider == [p1 |-> ApiProvider(0), p2 |-> PlaylistProvider]

\* how many requests get_streams issues for a task's provider: it calls
\* _enforce_request_delay before each
request_count(task) ==
    Len(get_streams(RateProvider[task], NoOptions, << >>,
                    [live |-> json_list(<< >>), series |-> json_list(<< >>),
                     vod |-> VodResponse]).requested)

\* the fetcher a task uses: `_get = KP_Get( )` inside _process_provider, one
\* instance for each task
fetcher_of(task) == task

\* the argument of time.sleep( ), 0 when the fetcher does not sleep
sleep_for_None(elapsed_time) == 0
sleep_for(elapsed_time) ==
    IF elapsed_time < min_request_interval
    THEN min_request_interval - elapsed_time
    ELSE 0

\* ------------------------------------------------------------- validity tester
\* KP_StreamTester._check_ffprobe_available on what `ffprobe -version` did:
\* its return code, or "raise" when it could not be run
check_ffprobe_available(version_run) ==
    IF version_run = "raise" THEN FALSE ELSE version_run = "0"

\* the pairs ( is_valid, error ) the tester returns
valid_stream == [is_valid |-> TRUE, error |-> << >>]
invalid_stream(error) == [is_valid |-> FALSE, error |-> error]

\* f"HTTP error: {...}"
http_error(what) == <<"H","T","T","P"," ","e","r","r","o","r",":"," ">> \o what

\* response.status_code not in [200, 206]
status_rejected_Only200(status_code) == status_code # 200
status_rejected(status_code) == status_code \notin {200, 206}

VideoFileExts == { <<".","m","p","4">>, <<".","m","k","v">>, <<".","a","v","i">>, <<".","m","o","v">>, <<".","w","m","v">>, <<".","f","l","v">>, <<".","w","e","b","m">> }

\* stream_indicators, and the detected_types that are logged
stream_indicators(stream_url, content_type, first_chunk) ==
    LET url_lower == str_lower(stream_url)
    IN [ hls |-> \/ str_in(<<"#","E","X","T","M","3","U">>, first_chunk)
                 \/ str_in(<<"a","p","p","l","i","c","a","t","i","o","n","/","v","n","d",".","a","p","p","l","e",".","m","p","e","g","u","r","l">>, content_type)
                 \/ str_in(<<"a","p","p","l","i","c","a","t","i","o","n","/","x","-","m","p","e","g","u","r","l">>, content_type)
                 \/ endswith(url_lower, <<".","m","3","u","8">>),
         dash |-> \/ str_in(<<"a","p","p","l","i","c","a","t","i","o","n","/","d","a","s","h","+","x","m","l">>, content_type)
                  \/ endswith(url_lower, <<".","m","p","d">>),
         video_file |-> \/ str_in(<<"v","i","d","e","o","/">>, content_type)
                        \/ \E ext \in VideoFileExts : endswith(url_lower, ext),
         transport_stream |-> \/ str_in(<<"v","i","d","e","o","/","m","p","2","t">>, content_type)
                              \/ endswith(url_lower, <<".","t","s">>),
         media_container |-> \/ str_in(<<"f","t","y","p">>, str_upto(first_chunk, 100))
                             \/ startswith(first_chunk, <<"F","L","V">>)
                             \/ str_in(<<"I","D","3">>, str_upto(first_chunk, 100))
                             \/ startswith(first_chunk, <<"x00", "x00", "x01", "xba">>)
                             \/ startswith(first_chunk, <<"G","@">>),
         rtmp_like |-> \E scheme \in { <<"r","t","m","p",":","/","/">>, <<"r","t","m","p","s",":","/","/">>, <<"r","t","s","p",":","/","/">> } :
                           startswith(url_lower, scheme) ]

detected_types(stream_url, content_type, first_chunk) ==
    {k \in DOMAIN stream_indicators(stream_url, content_type, first_chunk) :
        stream_indicators(stream_url, content_type, first_chunk)[k]}

\* the video streams of ffprobe's JSON output
video_streams(probe_data) ==
    SelectSeq(probe_data.streams, LAMBDA s : item_get(s, "codec_type", JsonNull) = <<"v","i","d","e","o">>)

\* KP_StreamTester._validate_with_ffprobe on what the ffprobe run did: "timeout"
\* (TimeoutExpired), "raise" (any other exception) or "exit" with a return code
\* and an output that is JSON with a streams list ("object"), JSON of another
\* shape ("other") or not JSON
validate_with_ffprobe_Strict(probe) ==
    IF probe.kind = "exit" /\ probe.returncode = 0 /\ probe.stdout = "object"
    THEN IF video_streams(probe.probe_data) = << >>
         THEN invalid_stream(<<"N","o"," ","v","i","d","e","o"," ","s","t","r","e","a","m">>)
         ELSE valid_stream
    ELSE valid_stream
validate_with_ffprobe(probe) ==
    IF probe.kind = "timeout" THEN valid_stream
    ELSE IF probe.kind = "raise" THEN valid_stream
    ELSE IF probe.returncode # 0 THEN valid_stream
    ELSE IF probe.stdout = "invalid" THEN valid_stream
    ELSE IF probe.stdout = "other" THEN valid_stream
    ELSE IF video_streams(probe.probe_data) = << >> THEN valid_stream
    ELSE LET codec_name == item_get(video_streams(probe.probe_data)[1],
                                    "codec_name", JsonNull)
         IN IF ~falsy(codec_name) /\ codec_name # <<"u","n","k","n","o","w","n">>
            THEN valid_stream
            ELSE valid_stream

\* KP_StreamTester._test_with_http_then_ffprobe on what requests.get( ) did:
\* "timeout", "connection", "raise" (another exception, with its message), or
\* a "response" with a status, a content type and the first chunk read from
\* it: bytes, or "raise" when reading failed.  `detected` is what was logged,
\* `probed` whether ffprobe was run.
test_with_http_then_ffprobe(stream_url, reply, ffprobe_available, probe) ==
    LET nothing == [raised |-> FALSE, detected |-> {}, probed |-> FALSE]
    IN IF reply.kind = "timeout" THEN invalid_stream(<<"H","T","T","P"," ","t","i","m","e","o","u","t">>) @@ nothing
       ELSE IF reply.kind = "connection"
       THEN invalid_stream(<<"C","o","n","n","e","c","t","i","o","n"," ","e","r","r","o","r">>) @@ nothing
       ELSE IF reply.kind = "raise" THEN invalid_stream(http_error(reply.message)) @@ nothing
       ELSE IF status_rejected(reply.status_code)
       THEN invalid_stream(http_error(decimal(reply.status_code))) @@ nothing
       ELSE IF reply.chunk = "raise"
       THEN invalid_stream(<<"F","a","i","l","e","d"," ","t","o"," ","r","e","a","d"," ","d","a","t","a">>) @@ nothing
       ELSE IF reply.first_chunk = << >>
       THEN invalid_stream(<<"N","o"," ","d","a","t","a"," ","r","e","c","e","i","v","e","d">>) @@ nothing
       ELSE LET detected == detected_types(stream_url,
                                           str_lower(reply.content_type),
                                           reply.first_chunk)
            IN IF ffprobe_available
               THEN validate_with_ffprobe(probe)
                        @@ [raised |-> FALSE, detected |-> detected, probed |-> TRUE]
               ELSE IF Len(reply.first_chunk) > 0
               THEN valid_stream @@ [raised |-> FALSE, detected |-> detected, probed |-> FALSE]
               ELSE invalid_stream(<<"N","o"," ","d","a","t","a"," ","r","e","c","e","i","v","e","d"," ","f","r","o","m"," ","s","t","r","e","a","m">>)
                        @@ [raised |-> FALSE, detected |-> detected, probed |-> FALSE]

\* KP_StreamTester._test_http_only on what the range request did
test_http_only(reply) ==
    IF reply.kind = "timeout" THEN invalid_stream(<<"H","T","T","P"," ","t","i","m","e","o","u","t">>)
    ELSE IF reply.kind = "connection" THEN invalid_stream(<<"C","o","n","n","e","c","t","i","o","n"," ","e","r","r","o","r">>)
    ELSE IF reply.kind = "raise" THEN invalid_stream(http_error(reply.message))
    ELSE IF status_rejected(reply.status_code)
    THEN invalid_stream(http_error(decimal(reply.status_code)))
    ELSE valid_stream

\* KP_StreamTester.test_stream: the verdict, and the requests made on the way
\* ("get" by the combined path, "range" by _test_http_only).  The combined path
\* catches every exception itself, it never ends raised.
test_stream(stream_data, reply, ffprobe_available, probe, range_reply) ==
    LET stream_url == item_get(stream_data, "s_stream_uri", << >>)
        combined == test_with_http_then_ffprobe(stream_url, reply,
                                                ffprobe_available, probe)
    IN IF stream_url = << >>
       THEN invalid_stream(<<"N","o"," ","s","t","r","e","a","m"," ","U","R","L">>)
                @@ [detected |-> {}, probed |-> FALSE, requests |-> << >>]
       ELSE IF combined.raised
       THEN test_http_only(range_reply)
                @@ [detected |-> {}, probed |-> FALSE, requests |-> <<"get", "range">>]
       ELSE [is_valid |-> combined.is_valid, error |-> combined.error,
             detected |-> combined.detected, probed |-> combined.probed,
             requests |-> <<"get">>]

\* ------------------------------------------------------------- tester inputs
UrlPool == { << >>, <<"h","t","t","p",":","/","/","x","/","a",".","t","s">>, <<"h","t","t","p",":","/","/","x","/","A",".","M","3","U","8">> }

http_response(status_code, content_type, chunk, first_chunk) ==
    [ kind |-> "response", status_code |-> status_code, content_type |-> content_type,
      chunk |-> chunk, first_chunk |-> first_chunk, message |-> << >> ]
http_failure(kind, message) ==
    [ kind |-> kind, status_code |-> 0, content_type |-> << >>,
      chunk |-> "raise", first_chunk |-> << >>, message |-> message ]

StatusPool == {200, 206, 404}
ContentTypePool == { << >>, <<"V","i","d","e","o","/","M","P","2","T">> }
ChunkPool == { << >>, <<"#","E","X","T","M","3","U">>, <<"G","@">> }

GetReplies ==
    { http_response(s, c, "bytes", b) : s \in StatusPool, c \in ContentTypePool, b \in ChunkPool }
        \cup { http_response(200, << >>, "raise", << >>) }
        \cup { http_failure("timeout", << >>), http_failure("connection", << >>),
               http_failure("raise", <<"b","a","d">>) }

RangeReplies ==
    { http_response(200, << >>, "bytes", << >>), http_response(404, << >>, "bytes", << >>),
      http_failure("timeout", << >>), http_failure("connection", << >>),
      http_failure("raise", <<"b","a","d">>) }

VersionRuns == {"0", "1", "raise"}

probe_exit(returncode, stdout, streams) ==
    [kind |-> "exit", returncode |-> returncode, stdout |-> stdout,
     probe_data |-> [streams |-> streams]]

ProbeRuns ==
    { [kind |-> "timeout", returncode |-> 0, stdout |-> "invalid",
       probe_data |-> [streams |-> << >>]],
      [kind |-> "raise", returncode |-> 0, stdout |-> "invalid",
       probe_data |-> [streams |-> << >>]],
      probe_exit(1, "invalid", << >>),
      probe_exit(0, "invalid", << >>),
      probe_exit(0, "other", << >>),
      probe_exit(0, "object", << >>),
      probe_exit(0, "object", << [codec_type |-> <<"a","u","d","i","o">>, codec_name |-> <<"a","a","c">>] >>),
      probe_exit(0, "object", << [codec_type |-> <<"v","i","d","e","o">>, codec_name |-> <<"u","n","k","n","o","w","n">>] >>),
      probe_exit(0, "object", << [codec_type |-> <<"v","i","d","e","o">>, codec_name |-> <<"h","2","6","4">>] >>) }

\* the rows _get_active_streams returns
stream_row(id, url) ==
    [ id |-> id, s_orig_name |-> <<"c","h">> \o decimal(id), s_stream_uri |-> url,
      sp_name |-> <<"p","r","o","v">>, p_id |-> 1, sp_cnx_limit |-> 1 ]

\* what a test of one stream meets: the row, what the GET and the range
\* request do, and what the two ffprobe runs do
TestEnvs ==
    [ stream_data : {stream_row(1, url) : url \in UrlPool},
      reply : GetReplies,
      version_run : VersionRuns,
      probe : ProbeRuns,
      range_reply : RangeReplies ]

NoVerdict == [pending |-> TRUE]

\* ------------------------------------------------------------- test_streams
\* how many active streams are loaded at most
MaxTested == 3

\* ThreadPoolExecutor( max_workers=4 )
TestWorkers == 4

\* the rows _get_active_streams returns when n streams are active
active_rows(n) == [i \in 1..n |-> stream_row(i, <<"h","t","t","p",":","/","/","x","/","a",".","t","s">>)]

\* what the test of a stream can meet in a run: a stream that plays, one that
\* answers 404
RunEnvs ==
    { [ stream_data |-> stream_row(1, <<"h","t","t","p",":","/","/","x","/","a",".","t","s">>),
        reply |-> reply,
        version_run |-> "raise",
        probe |-> probe_exit(1, "invalid", << >>),
        range_reply |-> http_failure("timeout", << >>) ] :
      reply \in { http_response(200, << >>, "bytes", <<"G","@">>),
                  http_response(404, << >>, "bytes", << >>) } }

\* KP_Sync._test_single_stream_simple: the tuple it returns; an exception
\* inside its try (here: of the import or the constructor) is caught and
\* returned as a failed test
test_single_stream_simple(stream_data, env, failure) ==
    IF failure # << >>
    THEN [raises |-> FALSE, stream_data |-> stream_data, is_valid |-> FALSE,
          error |-> <<"T","e","s","t","i","n","g"," ","e","r","r","o","r",":"," ">> \o failure]
    ELSE LET tested == test_stream(stream_data, env.reply,
                                   check_ffprobe_available(env.version_run),
                                   env.probe, env.range_reply)
         IN [raises |-> FALSE, stream_data |-> stream_data,
             is_valid |-> tested.is_valid, error |-> tested.error]

TestFailures == { << >>, <<"b","o","o","m">> }

\* the counters and the list test_streams keeps
TallyStart ==
    [tested_count |-> 0, valid_count |-> 0, invalid_count |-> 0, invalid_streams |-> << >>]

\* the body of `for future in as_completed( ... )` for one future
record_result_DropFailed(tally, result) ==
    IF result.is_valid
    THEN [tally EXCEPT !.tested_count = @ + 1, !.valid_count = @ + 1]
    ELSE [tally EXCEPT !.tested_count = @ + 1, !.invalid_count = @ + 1,
                       !.invalid_streams =
                           IF startswith(result.error, <<"T","e","s","t","i","n","g"," ","e","r","r","o","r">>) THEN @
                           ELSE Append(@, <<result.stream_data, result.error>>)]
record_result(tally, result) ==
    IF result.raises
    THEN [tally EXCEPT !.invalid_count = @ + 1]
    ELSE IF result.is_valid
    THEN [tally EXCEPT !.tested_count = @ + 1, !.valid_count = @ + 1]
    ELSE [tally EXCEPT !.tested_count = @ + 1, !.invalid_count = @ + 1,
                       !.invalid_streams = Append(@, <<result.stream_data, result.error>>)]

\* c * n
RECURSIVE str_repeat(_, _)
str_repeat(c, n) == IF n <= 0 THEN << >> ELSE <<c>> \o str_repeat(c, n - 1)

\* datetime.now( ).strftime( '%Y-%m-%d %H:%M:%S' ) at the time of writing
LogTime == <<"2","0","2","6","-","0","1","-","0","1"," ","0","0",":","0","0",":","0","0">>

\* the lines written for one invalid stream
log_block(stream_data, error) ==
    << <<"I","D",":"," ">> \o decimal(stream_data.id),
       <<"N","a","m","e",":"," ">> \o stream_data.s_orig_name,
       <<"U","R","L",":"," ">> \o stream_data.s_stream_uri,
       <<"P","r","o","v","i","d","e","r",":"," ">> \o item_get(stream_data, "sp_name", <<"U","n","k","n","o","w","n">>),
       <<"E","r","r","o","r",":"," ">> \o error,
       str_repeat("-", 40) >>

RECURSIVE log_blocks(_)
log_blocks(invalid_streams) ==
    IF invalid_streams = << >> THEN << >>
    ELSE log_block(Head(invalid_streams)[1], Head(invalid_streams)[2])
             \o log_blocks(Tail(invalid_streams))

\* the lines of invalid_streams_<timestamp>.log
log_lines(invalid_streams) ==
    << <<"I","n","v","a","l","i","d"," ","S","t","r","e","a","m","s"," ","L","o","g"," ","-"," ","G","e","n","e","r","a","t","e","d",":"," ">> \o LogTime, str_repeat("=", 80), << >> >>
        \o log_blocks(invalid_streams)

NoLogFile == [written |-> FALSE, lines |-> << >>]

\* ------------------------------------------------------------- fix_from_log
\* the most ID entries a log file holds
MaxIds == 201

\* chunk_size in _batch_move_streams_to_other
chunk_size == 100

\* int( text ): surrounding whitespace and a sign are accepted, then digits only;
\* anything else is a ValueError
RECURSIVE digits_value(_)
digits_value(digits) ==
    IF digits = << >> THEN 0
    ELSE 10 * digits_value(SubSeq(digits, 1, Len(digits) - 1))
             + ((CHOOSE d \in 1..10 : Digits[d] = digits[Len(digits)]) - 1)

int_of(text) ==
    LET stripped == str_strip(text)
        signed == stripped # << >> /\ stripped[1] \in {"+", "-"}
        digits == IF signed THEN Tail(stripped) ELSE stripped
    IN IF digits # << >> /\ \A k \in 1..Len(digits) : \E d \in 1..10 : Digits[d] = digits[k]
       THEN [ok |-> TRUE,
             value |-> IF signed /\ stripped[1] = "-" THEN 0 - digits_value(digits)
                       ELSE digits_value(digits)]
       ELSE [ok |-> FALSE, value |-> 0]

\* the loop of _parse_log_file over the lines read: a line that, stripped,
\* starts with "ID: " and holds an integer after it yields that integer
id_line(line) ==
    /\ startswith(str_strip(line), <<"I","D",":"," ">>)
    /\ int_of(str_from(str_strip(line), 4)).ok

\* stream_ids after the loop: the integers of the ID lines, in file order
\* (the lines are gone through half by half, which yields them in that order)
RECURSIVE extract_ids(_)
extract_ids(lines) ==
    IF lines = << >> THEN << >>
    ELSE IF Len(lines) = 1
    THEN IF id_line(lines[1])
         THEN <<int_of(str_from(str_strip(lines[1]), 4)).value>>
         ELSE << >>
    ELSE extract_ids(SubSeq(lines, 1, Len(lines) \div 2))
             \o extract_ids(SubSeq(lines, (Len(lines) \div 2) + 1, Len(lines)))

\* KP_Sync._parse_log_file: the ids, or [ ] when reading the file or the
\* cleanup it runs raised
parse_log_file(lines, cleanup_outcome) ==
    IF call_proc_raises(cleanup_outcome) THEN << >> ELSE extract_ids(lines)

\* what call_proc( "Streams_Move_To_Other", [ stream_id ] ) meets: the ids the
\* procedure fails on, and the ids at which no connection can be had
move_outcome(stream_id, faults) ==
    IF stream_id \in faults.db_error THEN "db_error"
    ELSE IF stream_id \in faults.proc_error THEN "proc_error"
    ELSE "ok"

\* stream_ids[ i:i + chunk_size ]
chunk_at(ids, i) ==
    SubSeq(ids, i + 1, IF i + chunk_size < Len(ids) THEN i + chunk_size ELSE Len(ids))

\* the loop variable after a chunk: the for loop goes on after a chunk that
\* failed (`continue`) as after one that did not
next_chunk_Abort(ids, i, failed) == IF failed THEN Len(ids) ELSE i + chunk_size
next_chunk(ids, i, failed) == i + chunk_size

\* `for stream_id in chunk`: the loop ends at the first call_proc that raises
\* or after the last id.  Every call_proc runs on a connection of its own
\* that _get_cursor commits when the call returns, and moved_count is
\* incremented after every call that returned.
move_loop(chunk, faults) ==
    LET raising == {k \in 1..Len(chunk) : call_proc_raises(move_outcome(chunk[k], faults))}
        last == IF raising = {} THEN Len(chunk) ELSE SetMin(raising)
        returned == IF raising = {} THEN Len(chunk) ELSE last - 1
    IN [ raised |-> raising # {},
         moved_count |-> returned,
         persisted |-> {chunk[k] : k \in {x \in 1..returned :
                                              move_outcome(chunk[x], faults) = "ok"}},
         calls |-> [k \in 1..last |->
                       [proc |-> "Streams_Move_To_Other", arg |-> chunk[k],
                        outcome |-> move_outcome(chunk[k], faults)]] ]

\* one chunk under `with db.transaction( )`: the transaction's connection
\* cannot be had, or the moves run and the transaction, which holds none of
\* them, is committed or rolled back
move_chunk(chunk, number, faults) ==
    LET nothing == [raised |-> FALSE, moved_count |-> 0, persisted |-> {}, calls |-> << >>]
        moved == move_loop(chunk, faults)
    IN IF number \in faults.no_transaction
       THEN [nothing EXCEPT !.raised = TRUE] @@ [transaction |-> "none"]
       ELSE moved @@ [transaction |-> IF moved.raised THEN "rollback" ELSE "commit"]

\* ------------------------------------------------------------- remediation inputs
\* the log test_streams writes for n invalid streams
log_of(n) ==
    log_lines([i \in 1..n |-> <<active_rows(n)[i], <<"H","T","T","P"," ","e","r","r","o","r",":"," ","4","0","4">>>>])

\* the ID lines of such a log
id_lines(n) == [i \in 1..n |-> <<"I","D",":"," ">> \o decimal(i)]

\* a log edited by hand
EditedLog ==
    << <<"I","D",":"," ","7">>, <<"I","D",":"," ","x">>, <<" "," ","I","D",":"," "," ","8"," ">>, <<"N","a","m","e",":"," ","I","D",":"," ","9">> >>

IdCounts == {chunk_size, chunk_size + 1, MaxIds}

\* the newest invalid_streams_*.log, if there is one
LogPool ==
    { [found |-> FALSE, lines |-> << >>], [found |-> TRUE, lines |-> EditedLog] }
        \cup { [found |-> TRUE, lines |-> log_of(n)] : n \in {1, 2} }
        \cup { [found |-> TRUE, lines |-> id_lines(n)] : n \in IdCounts }

\* what the repository does during a run
FaultPool ==
    [ cleanup : {"ok", "proc_error", "db_error"},
      proc_error : SUBSET {1, chunk_size + 1},
      db_error : SUBSET {2, chunk_size + 50},
      no_transaction : SUBSET {2} ]

BatchStart == [i |-> 0, moved_count |-> 0, chunks |-> << >>]

NoReport == [printed |-> FALSE, found |-> 0, moved |-> 0, all_moved |-> FALSE]

\* ------------------------------------------------------------- log file round trip
\* how many streams a run that is written and read back has tested at most
MaxListed == 2

\* the characters of the file after the write( ) calls of test_streams: every
\* piece is written followed by "\n"
RECURSIVE file_text(_)
file_text(pieces) ==
    IF pieces = << >> THEN << >>
    ELSE Head(pieces) \o <<"\n">> \o file_text(Tail(pieces))

\* f.readlines( ) of a file opened in text mode: a line ends after "\n", "\r\n"
\* or "\r", each handed over as "\n"; what follows the last line end is a
\* line too if it is not empty
readlines(text) ==
    LET ends == {i \in 1..Len(text) :
                     \/ text[i] = "\n"
                     \/ text[i] = "\r" /\ (i = Len(text) \/ text[i + 1] # "\n")}
        rank(e) == Cardinality({x \in ends : x <= e})
        end_of(k) == CHOOSE e \in ends : rank(e) = k
        start_of(k) == IF k = 1 THEN 1 ELSE end_of(k - 1) + 1
        body_end(k) == IF text[end_of(k)] = "\n" /\ end_of(k) > start_of(k)
                          /\ text[end_of(k) - 1] = "\r"
                       THEN end_of(k) - 2 ELSE end_of(k) - 1
        whole == [k \in 1..Cardinality(ends) |->
                     SubSeq(text, start_of(k), body_end(k)) \o <<"\n">>]
        last == IF ends = {} THEN 0 ELSE end_of(Cardinality(ends))
    IN IF last < Len(text) THEN Append(whole, SubSeq(text, last + 1, Len(text)))
       ELSE whole

\* rows of active streams as the repository holds them: the name is the one
\* the provider sent
named_row(id, name) ==
    [stream_row(id, <<"h","t","t","p",":","/","/","x","/","a",".","t","s">>) EXCEPT !.s_orig_name = name]

\* names providers send: a plain one, one that reads like an entry of the
\* log, one that holds a line break
NamePool == { <<"c","h">>, <<"I","D",":"," ","7">>, <<"N","e","w","s">> \o <<"\n">> \o <<"I","D",":"," ","9">> }

\* what a finished test says of its stream: valid, or invalid with the
\* tester's reason
VerdictPool ==
    { [is_valid |-> TRUE, error |-> << >>],
      [is_valid |-> FALSE, error |-> <<"H","T","T","P"," ","e","r","r","o","r",":"," ","4","0","4">>],
      [is_valid |-> FALSE, error |-> <<"N","o"," ","d","a","t","a"," ","r","e","c","e","i","v","e","d">>] }

\* the streams of a run with their tests finished, in the order in which
\* as_completed hands them over
TestedPool ==
    UNION { { run \in [1..n -> [id : 1..(MaxListed + 1), name : NamePool, verdict : VerdictPool]] :
                \A i, j \in 1..n : i # j => run[i].id # run[j].id } : n \in 0..MaxListed }

\* the future of a finished test
finished_test(tested) ==
    [state |-> "finished", raises |-> FALSE,
     stream_data |-> named_row(tested.id, tested.name),
     is_valid |-> tested.verdict.is_valid, error |-> tested.verdict.error]

\* the log an earlier run of test_streams left behind
OlderLog ==
    [written |-> TRUE,
     lines |-> log_lines(<< <<named_row(MaxListed + 2, <<"o","l","d">>), <<"H","T","T","P"," ","t","i","m","e","o","u","t">>>> >>)]

\* the counters and invalid_streams after the loop over as_completed has
\* taken the tests of a run in their order
RECURSIVE collected(_)
collected(run) ==
    IF run = << >> THEN TallyStart
    ELSE record_result(collected(SubSeq(run, 1, Len(run) - 1)),
                       finished_test(run[Len(run)]))

\* what glob and the sort by modification time find, and what readlines( )
\* gives for the newest file
newest_log(file) ==
    IF file.written
    THEN [found |-> TRUE, lines |-> readlines(file_text(file.lines))]
    ELSE [found |-> FALSE, lines |-> << >>]

\* ------------------------------------------------------------- predicate builder
\* how many WhereClause objects a query is given at most
MaxClauses == 2

\* isinstance( value, ( list, tuple ) ): values are [kind, items], with items
\* the elements of a list or tuple, the characters of a string and nothing
\* for a number
is_list_or_tuple(value) == value.kind \in {"list", "tuple"}

\* ', '.join( [ '%s' ] * n ), as the tokens of the SQL text
RECURSIVE placeholders(_)
placeholders(n) ==
    IF n <= 0 THEN << >>
    ELSE IF n = 1 THEN <<"%s">>
    ELSE <<"%s", ",">> \o placeholders(n - 1)

\* WhereClause.__str__: the tokens of the condition, or ValueError for IN and
\* NOT IN with a value that is no list or tuple
where_str(clause) ==
    IF clause.operator \in {"IS NULL", "IS NOT NULL"}
    THEN [raises |-> FALSE, text |-> <<clause.field, clause.operator>>]
    ELSE IF clause.operator = "BETWEEN"
    THEN [raises |-> FALSE, text |-> <<clause.field, "BETWEEN", "%s", "AND", "%s">>]
    ELSE IF clause.operator \in {"IN", "NOT IN"}
    THEN IF is_list_or_tuple(clause.value)
         THEN [raises |-> FALSE,
               text |-> <<clause.field, clause.operator, "(">>
                            \o placeholders(Len(clause.value.items)) \o <<")">>]
         ELSE [raises |-> TRUE, text |-> << >>]
    ELSE [raises |-> FALSE, text |-> <<clause.field, clause.operator, "%s">>]

\* the elements of a list or tuple, as values
elements(value) == [k \in 1..Len(value.items) |-> [kind |-> "int", items |-> <<value.items[k]>>]]

\* the test _build_where_clause makes of a BETWEEN value
between_ok_AnyLength(value) == is_list_or_tuple(value)
between_ok(value) == is_list_or_tuple(value) /\ Len(value.items) = 2

\* the body of the loop of _build_where_clause for clause number i (from 1):
\* what it does to where_parts and where_params, or the ValueError that
\* leaves the loop
where_step(built, clause, i) ==
    LET shown == where_str(clause)
        part == IF i = 1 THEN shown.text ELSE <<clause.connector>> \o shown.text
        raised == [built EXCEPT !.raised = TRUE, !.error = "ValueError"]
    IN IF built.raised THEN built
       ELSE IF shown.raises THEN raised
       ELSE IF clause.operator = "BETWEEN"
       THEN IF between_ok(clause.value)
            THEN [built EXCEPT !.where_parts = @ \o part,
                               !.where_params = @ \o elements(clause.value)]
            ELSE raised
       ELSE IF clause.operator \in {"IN", "NOT IN"}
       THEN IF is_list_or_tuple(clause.value)
            THEN [built EXCEPT !.where_parts = @ \o part,
                               !.where_params = @ \o elements(clause.value)]
            ELSE raised
       ELSE IF clause.operator \notin {"IS NULL", "IS NOT NULL"}
       THEN [built EXCEPT !.where_parts = @ \o part,
                          !.where_params = Append(@, clause.value)]
       ELSE [built EXCEPT !.where_parts = @ \o part]

RECURSIVE where_loop(_, _)
where_loop(where, n) ==
    IF n = 0
    THEN [raised |-> FALSE, error |-> "", where_parts |-> << >>, where_params |-> << >>]
    ELSE where_step(where_loop(where, n - 1), where[n], n)

\* KP_DB._build_where_clause: ( "", [ ] ) without clauses, else
\* " WHERE " + " ".join( where_parts ) and the parameters
build_where_clause(where) ==
    IF where = << >>
    THEN [raised |-> FALSE, error |-> "", where_clause |-> << >>, where_params |-> << >>]
    ELSE LET built == where_loop(where, Len(where))
         IN IF built.raised
            THEN [raised |-> TRUE, error |-> built.error,
                  where_clause |-> << >>, where_params |-> << >>]
            ELSE [raised |-> FALSE, error |-> "",
                  where_clause |-> <<"WHERE">> \o built.where_parts,
                  where_params |-> built.where_params]

\* get_all and delete: the statement is built, then executed; an exception of
\* the builder leaves the method before a cursor is asked for
db_call(api, where) ==
    LET built == build_where_clause(where)
        statement == (IF api = "get_all" THEN <<"SELECT", "*", "FROM", "t">>
                      ELSE <<"DELETE", "FROM", "t">>) \o built.where_clause
    IN IF built.raised
       THEN [done |-> TRUE, api |-> api, raised |-> TRUE, error |-> built.error,
             query |-> << >>, params |-> << >>, executed |-> 0]
       ELSE [done |-> TRUE, api |-> api, raised |-> FALSE, error |-> "",
             query |-> statement, params |-> built.where_params, executed |-> 1]

\* the values a clause is given
number_value(n) == [kind |-> "int", items |-> <<n>>]

ValuePool ==
    { number_value(5),
      [kind |-> "str", items |-> <<"a", "b">>],
      [kind |-> "list", items |-> <<1>>],
      [kind |-> "list", items |-> <<1, 2>>],
      [kind |-> "tuple", items |-> <<1, 2>>],
      [kind |-> "list", items |-> <<1, 2, 3>>] }

ClausePool ==
    [ field : {"a"}, operator : {"=", "IN", "NOT IN", "BETWEEN", "IS NULL"},
      value : ValuePool, connector : {"AND"} ]
    \cup [ field : {"b"}, operator : {"="}, value : ValuePool, connector : {"OR"} ]

WherePool == UNION { [1..n -> ClausePool] : n \in 0..MaxClauses }

NoCall == [done |-> FALSE, api |-> "", raised |-> FALSE, error |-> "",
           query |-> << >>, params |-> << >>, executed |-> 0]

\* ------------------------------------------------------------- state
VARIABLES
    normalized_data,    \* filter_streams' first argument
    db_filters,         \* filter_streams' second argument
    filtered_streams,   \* its return value
    tried,              \* per stream, the rules its exclude loop looked at
    fpc,                \* "input" before the call, "done" after it
    max_threads,        \* KP_Sync.max_threads
    providers,          \* _providers: the ids of the loaded providers
    mpc,                \* where the thread running sync() is
    tpc,                \* per provider, where its _process_provider task is
    db_lock,            \* holder of KP_Sync._db_lock
    thread_lock,        \* holder of KP_Sync._thread_lock
    cache,              \* KP_Cache: filter rules by owning user
    t_filters,          \* per task, _filters
    t_streams,          \* per task, _streams
    t_converted,        \* per task, _converted_streams
    future,             \* per task, what its future holds
    raised_in,          \* per task, the step that raised ("none": no step)
    results,            \* sync()'s results list
    has_errors,         \* sync()'s has_errors flag
    timed_out,          \* as_completed raised TimeoutError
    late,               \* the tasks that were unfinished when it did
    stream_temp,        \* rows of the staging table
    refreshed,          \* arguments of the Provider_Update_Refreshed calls made
    final_log,          \* the finalization calls made, with their outcome
    summary,            \* what _print_final_summary was called with
    prov,               \* the provider row handed to get_streams
    cli_args,           \* KP_Common.args: the --live, --series and --vod options
    m3u_content,        \* the text served at a playlist provider's URL, as lines
    api_responses,      \* what the API endpoints answer, by stream-type group
    get_out,            \* what get_streams did and returned
    parsed,             \* the state _parse_m3u ended in
    gpc                 \* "input" before the call, "done" after it

VARIABLES
    now,                \* time.time( ), in ticks
    last_request_time,  \* per task, its fetcher's last_request_time
    elapsed,            \* per task, the elapsed time its fetcher measured
    wake_at,            \* per task, when the time.sleep( ) it is in ends
    released,           \* per task, the times its fetcher let a request go
    rpc,                \* per task, where it is in _enforce_request_delay
    test_env,           \* what a test of one stream meets
    test_result,        \* what test_stream returned
    vpc,                \* "input" before the call, "done" after it
    active_streams,     \* test_streams' streams
    test_futures,       \* per stream, its future: submitted, running or finished
    yielded,            \* the futures as_completed has handed to the loop
    tally,              \* the counters and invalid_streams
    log_file,           \* the newest invalid_streams_<timestamp>.log there is
    tspc,               \* where the thread running test_streams( ) is
    latest_log,         \* what _find_latest_log_file finds: the newest log's lines
    db_faults,          \* what the repository does during fix_from_log
    found_ids,          \* fix_from_log's stream_ids
    batch,              \* _batch_move_streams_to_other: i, moved_count, the chunks done
    other_table,        \* the ids whose move to the other table is persisted
    db_calls,           \* the call_proc calls fix_from_log made, with their outcome
    report,             \* the summary fix_from_log printed
    fxpc,               \* where fix_from_log( ) is
    cpu_count,          \* what os.cpu_count( ) returns (0: None)
    threads_arg,        \* the max_threads argument KP_Sync( ) was given
    filter_lookups,     \* per owning user, the _get_filters calls that returned
    filter_queries,     \* per owning user, the stream_filters queries executed
    where_arg,          \* the WhereClause list a KP_DB method is given
    where_out           \* what the method did: the statement executed or the error

filterVars == <<normalized_data, db_filters, filtered_streams, tried, fpc>>

taskVars == <<tpc, t_filters, t_streams, t_converted, future, raised_in>>

mainVars == <<max_threads, providers, mpc, results, has_errors, timed_out, late,
              final_log, summary>>

dbVars == <<db_lock, thread_lock, cache, stream_temp, refreshed>>

syncVars == <<taskVars, mainVars, dbVars>>

getVars == <<prov, cli_args, m3u_content, api_responses, get_out, parsed, gpc>>

rateVars == <<now, last_request_time, elapsed, wake_at, released, rpc>>

testerVars == <<test_env, test_result, vpc>>

testRunVars == <<active_streams, test_futures, yielded, tally, log_file, tspc>>

fixVars == <<latest_log, db_faults, found_ids, batch, other_table, db_calls, report, fxpc>>

ctorVars == <<cpu_count, threads_arg>>

lookupVars == <<filter_lookups, filter_queries>>

whereVars == <<where_arg, where_out>>

sideVars == <<ctorVars, lookupVars, whereVars>>

opsVars == <<rateVars, testerVars, testRunVars, fixVars, sideVars>>

vars == <<filterVars, syncVars, getVars, opsVars>>

\* ------------------------------------------------------------- filter run
FilterStart ==
    /\ normalized_data = << >>
    /\ db_filters = << >>
    /\ filtered_streams = << >>
    /\ tried = << >>
    /\ fpc = "input"

\* what sync( ) starts from, the worker count apart
SyncFresh ==
    /\ providers = {}
    /\ tpc = [p \in ProviderIds |-> "none"]
    /\ db_lock = NoLock
    /\ thread_lock = NoLock
    /\ cache = [u \in DOMAIN stream_filters |-> NoFilters]
    /\ t_filters = [p \in ProviderIds |-> NoFilters]
    /\ t_streams = [p \in ProviderIds |-> << >>]
    /\ t_converted = [p \in ProviderIds |-> {}]
    /\ future = [p \in ProviderIds |-> NoResult]
    /\ raised_in = [p \in ProviderIds |-> "none"]
    /\ results = << >>
    /\ has_errors = FALSE
    /\ timed_out = FALSE
    /\ late = {}
    /\ stream_temp = {}
    /\ refreshed = {}
    /\ final_log = << >>
    /\ summary = NoResult

\* KP_Sync.__init__ has run, sync( ) is not called yet: the max_threads
\* argument is None or an integer, os.cpu_count( ) is 1
SyncStart ==
    /\ cpu_count = 1
    /\ threads_arg \in ThreadArgs
    /\ max_threads = determine_thread_count(threads_arg,
                                            default_threads(cpu_count_or_1(cpu_count)))
    /\ mpc = "load"
    /\ SyncFresh

\* a fetcher that has not been used
GetIdle ==
    /\ prov = PlaylistProvider
    /\ cli_args = NoOptions
    /\ m3u_content = << >>
    /\ api_responses = [live |-> json_list(<< >>), series |-> json_list(<< >>),
                        vod |-> VodResponse]
    /\ get_out = GetStart
    /\ parsed = M3uStart
    /\ gpc = "input"

\* no provider task has created its fetcher; the clock is past the epoch
RateStart ==
    /\ now = min_request_interval
    /\ last_request_time = [t \in RateTasks |-> 0]
    /\ elapsed = [t \in RateTasks |-> 0]
    /\ wake_at = [t \in RateTasks |-> 0]
    /\ released = [t \in RateTasks |-> << >>]
    /\ rpc = [t \in RateTasks |-> "none"]

\* a tester that has not been called
TesterIdle ==
    /\ test_env = CHOOSE env \in TestEnvs : env.stream_data.s_stream_uri = << >>
    /\ test_result = NoVerdict
    /\ vpc = "input"

\* test_streams( ) has not been called
TestRunStart ==
    /\ active_streams = << >>
    /\ test_futures = << >>
    /\ yielded = {}
    /\ tally = TallyStart
    /\ log_file = NoLogFile
    /\ tspc = "load"

\* fix_from_log( ) has not been called
FixIdle ==
    /\ latest_log = [found |-> FALSE, lines |-> << >>]
    /\ db_faults = [cleanup |-> "ok", proc_error |-> {}, db_error |-> {},
                    no_transaction |-> {}]
    /\ found_ids = << >>
    /\ batch = BatchStart
    /\ other_table = {}
    /\ db_calls = << >>
    /\ report = NoReport
    /\ fxpc = "find"

\* no _get_filters call has been made
LookupIdle ==
    /\ filter_lookups = [u \in DOMAIN stream_filters |-> 0]
    /\ filter_queries = [u \in DOMAIN stream_filters |-> 0]

\* no KP_DB method has been called
WhereIdle ==
    /\ where_arg = << >>
    /\ where_out = NoCall

SideIdle == LookupIdle /\ WhereIdle

OpsIdle == RateStart /\ TesterIdle /\ TestRunStart /\ FixIdle /\ SideIdle

FilterInit == FilterStart /\ SyncStart /\ GetIdle /\ OpsIdle

\* one more stream in the batch
AddStream ==
    /\ fpc = "input"
    /\ Cardinality(DOMAIN normalized_data) < MaxStreams
    /\ \E id \in StreamIds \ DOMAIN normalized_data :
          normalized_data' =
              [k \in DOMAIN normalized_data \cup {id} |-> StreamPool[k]]
    /\ UNCHANGED <<db_filters, filtered_streams, tried, fpc, syncVars, getVars, opsVars>>

\* one more rule at the end of the owner's rule list
AddRule ==
    /\ fpc = "input"
    /\ Len(db_filters) < MaxRules
    /\ \E r \in RulePool : db_filters' = Append(db_filters, r)
    /\ UNCHANGED <<normalized_data, filtered_streams, tried, fpc, syncVars, getVars, opsVars>>

\* KP_Filter.filter_streams( normalized_data, db_filters )
FilterCall ==
    /\ fpc = "input"
    /\ filtered_streams' = filter_streams(normalized_data, db_filters)
    /\ tried' = [id \in DOMAIN normalized_data |->
                    rules_tried(normalized_data[id], db_filters)]
    /\ fpc' = "done"
    /\ UNCHANGED <<normalized_data, db_filters, syncVars, getVars, opsVars>>

FilterNext == AddStream \/ AddRule \/ FilterCall

FilterSpec == FilterInit /\ [][FilterNext]_vars

\* ------------------------------------------------------------- provider task
\* KP_Sync._convert_streams: one storage row per surviving stream
convert_streams(streams, provider) ==
    { [u_id |-> provider.u_id,
       p_id |-> provider.id,
       s_orig_name |-> streams[id].stream_name,
       s_stream_uri |-> streams[id].stream_url] : id \in DOMAIN streams }

\* the outcome tuples of _process_provider; raises tells whether the future
\* holds an exception instead of a tuple
task_return(total, filtered, provider, error) ==
    [total |-> total, filtered |-> filtered, name |-> provider.sp_name,
     error |-> error, raises |-> FALSE]

\* the except block letting the exception out of the task
task_except_Reraise(provider, e) ==
    [total |-> 0, filtered |-> 0, name |-> provider.sp_name,
     error |-> e, raises |-> TRUE]

\* `except Exception as e: return ( 0, 0, _prov['sp_name'], str( e ) )`
task_except(provider, e) == task_return(0, 0, provider, e)

\* the holder of _db_lock once the `with` block of the filter lookup is left
lock_after_lookup_Held(p) == p

lock_after_lookup(p) == NoLock

\* the task has returned: its locals are gone
TaskLocalsDropped(p) ==
    /\ t_filters' = [t_filters EXCEPT ![p] = NoFilters]
    /\ t_streams' = [t_streams EXCEPT ![p] = << >>]
    /\ t_converted' = [t_converted EXCEPT ![p] = {}]

Running == {p \in ProviderIds : tpc[p] \notin {"none", "queued", "done"}}

\* a worker of the pool picks the task up and waits for _db_lock
TaskStart(p) ==
    /\ tpc[p] = "queued"
    /\ Cardinality(Running) < max_threads
    /\ tpc' = [tpc EXCEPT ![p] = "lookup_wait"]
    /\ UNCHANGED <<t_filters, t_streams, t_converted, future, raised_in,
                   mainVars, dbVars, filterVars, getVars, opsVars>>

\* `with self._db_lock:` of the filter lookup is entered
TaskLookupEnter(p) ==
    /\ tpc[p] = "lookup_wait"
    /\ db_lock = NoLock
    /\ db_lock' = p
    /\ tpc' = [tpc EXCEPT ![p] = "lookup"]
    /\ UNCHANGED <<t_filters, t_streams, t_converted, future, raised_in,
                   mainVars, thread_lock, cache, stream_temp, refreshed, filterVars, getVars, opsVars>>

\* KP_Sync_Data._get_filters: `cache.get( _ckey ) or None`, else the query and cache.set
get_filters_cached(uid) ==
    IF cache[uid] = NoFilters \/ cache[uid] = << >> THEN NoFilters ELSE cache[uid]

\* KP_Sync_Data._get_filters for a call that returns: on a miss the rows of
\* the user are queried and put in the cache
get_filters(uid) ==
    LET hit == get_filters_cached(uid)
        got == IF hit = NoFilters THEN stream_filters[uid] ELSE hit
    IN [ queried |-> hit = NoFilters,
         returned |-> got,
         cache |-> IF hit = NoFilters THEN [cache EXCEPT ![uid] = got] ELSE cache ]

\* _get_filters returns; the `_filters is None` test; the lock is released
TaskLookupReturn(p) ==
    /\ tpc[p] = "lookup"
    /\ LET uid == ProviderPool[p].u_id
           call == get_filters(uid)
           got == call.returned
       IN /\ cache' = call.cache
          /\ filter_lookups' = [filter_lookups EXCEPT ![uid] = @ + 1]
          /\ filter_queries' = [filter_queries EXCEPT ![uid] =
                                    IF call.queried THEN @ + 1 ELSE @]
          /\ t_filters' = [t_filters EXCEPT ![p] = got]
          /\ IF got = NoFilters
             THEN /\ future' = [future EXCEPT ![p] =
                         task_return(0, 0, ProviderPool[p], "No filters found")]
                  /\ tpc' = [tpc EXCEPT ![p] = "done"]
                  /\ db_lock' = NoLock
             ELSE /\ future' = future
                  /\ tpc' = [tpc EXCEPT ![p] = "fetch"]
                  /\ db_lock' = lock_after_lookup(p)
    /\ UNCHANGED <<t_streams, t_converted, raised_in, mainVars, thread_lock,
                   stream_temp, refreshed, filterVars, getVars,
                   rateVars, testerVars, testRunVars, fixVars, ctorVars, whereVars>>

\* KP_DB( ) or get_all raises inside _get_filters
TaskLookupRaise(p) ==
    /\ tpc[p] = "lookup"
    /\ get_filters_cached(ProviderPool[p].u_id) = NoFilters
    /\ db_lock' = NoLock
    /\ raised_in' = [raised_in EXCEPT ![p] = "lookup"]
    /\ future' = [future EXCEPT ![p] = task_except(ProviderPool[p], "Database error")]
    /\ tpc' = [tpc EXCEPT ![p] = "done"]
    /\ TaskLocalsDropped(p)
    /\ UNCHANGED <<mainVars, thread_lock, cache, stream_temp, refreshed, filterVars, getVars, opsVars>>

\* KP_Get( ).get_streams( _prov ) returns
TaskFetchReturn(p) ==
    /\ tpc[p] = "fetch"
    /\ \E data \in FetchPool : t_streams' = [t_streams EXCEPT ![p] = data]
    /\ tpc' = [tpc EXCEPT ![p] = "filter"]
    /\ UNCHANGED <<t_filters, t_converted, future, raised_in, mainVars, dbVars,
                   filterVars, getVars, opsVars>>

\* KP_Get( ) or get_streams raises
TaskFetchRaise(p) ==
    /\ tpc[p] = "fetch"
    /\ raised_in' = [raised_in EXCEPT ![p] = "fetch"]
    /\ future' = [future EXCEPT ![p] = task_except(ProviderPool[p], "Fetch error")]
    /\ tpc' = [tpc EXCEPT ![p] = "done"]
    /\ TaskLocalsDropped(p)
    /\ UNCHANGED <<mainVars, dbVars, filterVars, getVars, opsVars>>

\* filter_streams, _convert_streams and `if _converted_streams:`
TaskFilterConvert(p) ==
    /\ tpc[p] = "filter"
    /\ LET converted == convert_streams(filter_streams(t_streams[p], t_filters[p]),
                                        ProviderPool[p])
       IN IF converted # {}
          THEN /\ t_converted' = [t_converted EXCEPT ![p] = converted]
               /\ tpc' = [tpc EXCEPT ![p] = "insert_wait"]
               /\ UNCHANGED <<t_filters, t_streams, future>>
          ELSE /\ tpc' = [tpc EXCEPT ![p] = "done"]
               /\ future' = [future EXCEPT ![p] =
                      task_return(Cardinality(DOMAIN t_streams[p]), 0,
                                  ProviderPool[p], "None")]
               /\ TaskLocalsDropped(p)
    /\ UNCHANGED <<raised_in, mainVars, dbVars, filterVars, getVars, opsVars>>

\* the write segment entered without taking _db_lock
TaskInsertEnter_NoLock(p) ==
    /\ tpc[p] = "insert_wait"
    /\ tpc' = [tpc EXCEPT ![p] = "insert"]
    /\ UNCHANGED <<t_filters, t_streams, t_converted, future, raised_in,
                   mainVars, dbVars, filterVars, getVars, opsVars>>

\* `with self._db_lock:` of the write segment is entered
TaskInsertEnter(p) ==
    /\ tpc[p] = "insert_wait"
    /\ db_lock = NoLock
    /\ db_lock' = p
    /\ tpc' = [tpc EXCEPT ![p] = "insert"]
    /\ UNCHANGED <<t_filters, t_streams, t_converted, future, raised_in,
                   mainVars, thread_lock, cache, stream_temp, refreshed, filterVars, getVars, opsVars>>

\* _insert_the_streams returns: insert_many committed the rows
TaskInsertReturn(p) ==
    /\ tpc[p] = "insert"
    /\ stream_temp' = stream_temp \cup t_converted[p]
    /\ tpc' = [tpc EXCEPT ![p] = "update"]
    /\ UNCHANGED <<t_filters, t_streams, t_converted, future, raised_in,
                   mainVars, db_lock, thread_lock, cache, refreshed, filterVars, getVars, opsVars>>

\* _insert_the_streams raises: the cursor rolled back, the lock is released
TaskInsertRaise(p) ==
    /\ tpc[p] = "insert"
    /\ db_lock' = IF db_lock = p THEN NoLock ELSE db_lock
    /\ raised_in' = [raised_in EXCEPT ![p] = "insert"]
    /\ future' = [future EXCEPT ![p] =
           task_except(ProviderPool[p], "Database error during insert")]
    /\ tpc' = [tpc EXCEPT ![p] = "done"]
    /\ TaskLocalsDropped(p)
    /\ UNCHANGED <<mainVars, thread_lock, cache, stream_temp, refreshed, filterVars, getVars, opsVars>>

\* _update_last_synced( _prov["u_id"] ) returns (call_proc swallows a failure of
\* the procedure itself); the lock is released; the counts are returned
TaskUpdateReturn(p) ==
    /\ tpc[p] = "update"
    /\ \E proc_ok \in BOOLEAN :
          refreshed' = IF proc_ok THEN refreshed \cup {ProviderPool[p].u_id}
                       ELSE refreshed
    /\ db_lock' = IF db_lock = p THEN NoLock ELSE db_lock
    /\ future' = [future EXCEPT ![p] =
           task_return(Cardinality(DOMAIN t_streams[p]),
                       Cardinality(t_converted[p]), ProviderPool[p], "None")]
    /\ tpc' = [tpc EXCEPT ![p] = "done"]
    /\ TaskLocalsDropped(p)
    /\ UNCHANGED <<raised_in, mainVars, thread_lock, cache, stream_temp, filterVars, getVars, opsVars>>

\* KP_DB( ) or the cursor of call_proc raises inside _update_last_synced
TaskUpdateRaise(p) ==
    /\ tpc[p] = "update"
    /\ db_lock' = IF db_lock = p THEN NoLock ELSE db_lock
    /\ raised_in' = [raised_in EXCEPT ![p] = "update"]
    /\ future' = [future EXCEPT ![p] = task_except(ProviderPool[p], "Database error")]
    /\ tpc' = [tpc EXCEPT ![p] = "done"]
    /\ TaskLocalsDropped(p)
    /\ UNCHANGED <<mainVars, thread_lock, cache, stream_temp, refreshed, filterVars, getVars, opsVars>>

Task(p) ==
    \/ TaskStart(p)
    \/ TaskLookupEnter(p)
    \/ TaskLookupReturn(p)
    \/ TaskLookupRaise(p)
    \/ TaskFetchReturn(p)
    \/ TaskFetchRaise(p)
    \/ TaskFilterConvert(p)
    \/ TaskInsertEnter(p)
    \/ TaskInsertReturn(p)
    \/ TaskInsertRaise(p)
    \/ TaskUpdateReturn(p)
    \/ TaskUpdateRaise(p)

\* ------------------------------------------------------------- sync()
Yielded == {results[i].name : i \in 1..Len(results)}

\* the futures as_completed has not handed to the loop yet
Pending == {p \in providers : ProviderPool[p].sp_name \notin Yielded}

\* _get_providers, `if not _providers: sys.exit( 1 )`, the executor is created
\* and one task per provider is submitted
SyncLoad ==
    /\ mpc = "load"
    /\ \E ps \in SUBSET ProviderIds :
          /\ providers' = ps
          /\ IF ps = {}
             THEN /\ mpc' = "exited"
                  /\ tpc' = tpc
             ELSE /\ mpc' = "collect"
                  /\ tpc' = [p \in ProviderIds |-> IF p \in ps THEN "queued" ELSE "none"]
    /\ UNCHANGED <<t_filters, t_streams, t_converted, future, raised_in,
                   max_threads, results, has_errors, timed_out, late, final_log, summary,
                   dbVars, filterVars, getVars, opsVars>>

\* one iteration of `for future in as_completed( futures, timeout=3600 )`:
\* future.result( ) returns the tuple, or raises what the task raised
SyncCollect ==
    /\ mpc = "collect"
    /\ \E p \in Pending :
          /\ tpc[p] = "done"
          /\ IF future[p].raises
             THEN /\ mpc' = "abort"
                  /\ UNCHANGED <<results, has_errors>>
             ELSE /\ results' = Append(results, future[p])
                  /\ has_errors' = (has_errors \/ future[p].error # "None")
                  /\ mpc' = mpc
    /\ UNCHANGED <<taskVars, max_threads, providers, timed_out, late, final_log, summary,
                   dbVars, filterVars, getVars, opsVars>>

\* as_completed finds futures pending when the 3600 s are over: TimeoutError,
\* which nothing in sync() catches
SyncDeadline ==
    /\ mpc = "collect"
    /\ Pending # {}
    /\ timed_out' = TRUE
    /\ late' = {p \in providers : tpc[p] # "done"}
    /\ mpc' = "abort"
    /\ UNCHANGED <<taskVars, max_threads, providers, results, has_errors,
                   final_log, summary, dbVars, filterVars, getVars, opsVars>>

\* the exception leaves the `with ThreadPoolExecutor` block: shutdown( wait=True )
\* returns once every task has finished, and the exception leaves sync()
SyncAbort ==
    /\ mpc = "abort"
    /\ \A p \in providers : tpc[p] = "done"
    /\ mpc' = "raised"
    /\ UNCHANGED <<taskVars, max_threads, providers, results, has_errors, timed_out, late,
                   final_log, summary, dbVars, filterVars, getVars, opsVars>>

\* the loop is exhausted, the `with ThreadPoolExecutor` block is left
SyncPoolExit ==
    /\ mpc = "collect"
    /\ Pending = {}
    /\ \A p \in providers : tpc[p] = "done"
    /\ mpc' = "final_wait"
    /\ UNCHANGED <<taskVars, max_threads, providers, results, has_errors, timed_out, late,
                   final_log, summary, dbVars, filterVars, getVars, opsVars>>

\* `with self._db_lock:` of the final operations is entered
SyncFinalEnter ==
    /\ mpc = "final_wait"
    /\ db_lock = NoLock
    /\ db_lock' = MainThread
    /\ mpc' = "merge"
    /\ UNCHANGED <<taskVars, max_threads, providers, results, has_errors, timed_out, late,
                   final_log, summary, thread_lock, cache, stream_temp, refreshed,
                   filterVars, getVars, opsVars>>

\* the three final operations in the order sync() calls them
FinalOps == <<"merge", "cleanup", "fixup">>

\* the position after a final operation that returned
final_next(op) ==
    IF op = "merge" THEN "cleanup" ELSE IF op = "cleanup" THEN "fixup" ELSE "summary"

\* the lock given up after every final operation
final_lock_after_EachOp(op) == NoLock

\* the holder of _db_lock after a final operation returned: the `with` block
\* ends after fixup( )
final_lock_after(op) == IF final_next(op) = "summary" THEN NoLock ELSE MainThread

\* _sync_the_streams / _cleanup / fixup returns or raises; `except Exception`
\* of the final operations sets has_errors
SyncFinalOp ==
    /\ mpc \in {"merge", "cleanup", "fixup"}
    /\ \E outcome \in {"ok", "proc_error", "db_error"} :
          /\ final_log' = Append(final_log, [op |-> mpc, outcome |-> outcome])
          /\ IF call_proc_raises(outcome)
             THEN /\ db_lock' = NoLock
                  /\ has_errors' = TRUE
                  /\ mpc' = "summary"
             ELSE /\ db_lock' = final_lock_after(mpc)
                  /\ has_errors' = has_errors
                  /\ mpc' = final_next(mpc)
    /\ UNCHANGED <<taskVars, max_threads, providers, results, timed_out, late, summary,
                   thread_lock, cache, stream_temp, refreshed, filterVars, getVars, opsVars>>

\* _print_final_summary( results, ..., has_errors ), and sync() returns
SyncSummary ==
    /\ mpc = "summary"
    /\ summary' = [results |-> results, has_errors |-> has_errors]
    /\ mpc' = "returned"
    /\ UNCHANGED <<taskVars, max_threads, providers, results, has_errors, timed_out, late,
                   final_log, dbVars, filterVars, getVars, opsVars>>

SyncInit == FilterStart /\ SyncStart /\ GetIdle /\ OpsIdle

SyncNext ==
    \/ SyncLoad
    \/ \E p \in ProviderIds : Task(p)
    \/ SyncCollect
    \/ SyncDeadline
    \/ SyncAbort
    \/ SyncPoolExit
    \/ SyncFinalEnter
    \/ SyncFinalOp
    \/ SyncSummary

Spec == SyncInit /\ [][SyncNext]_vars

\* ------------------------------------------------------------- ingestion run, scheduled
\* every fetch and every repository call returns or raises, a worker that is
\* free takes a queued task, a lock that is free is given to a thread waiting
\* for it, and the thread of sync( ) goes on when it can; the deadline of
\* as_completed may elapse or not
SyncFairness ==
    /\ \A p \in ProviderIds : WF_vars(Task(p))
    /\ WF_vars(SyncLoad)
    /\ WF_vars(SyncCollect)
    /\ WF_vars(SyncAbort)
    /\ WF_vars(SyncPoolExit)
    /\ WF_vars(SyncFinalEnter)
    /\ WF_vars(SyncFinalOp)
    /\ WF_vars(SyncSummary)

FairSpec == SyncInit /\ [][SyncNext]_vars /\ SyncFairness

\* ------------------------------------------------------------- fetch runs
\* sync() not running: the default worker count
SyncIdle == SyncStart /\ max_threads = default_threads(1)

\* one more line at the end of the playlist
AddLine ==
    /\ gpc = "input"
    /\ Len(m3u_content) < MaxLines
    /\ \E line \in LinePool : m3u_content' = Append(m3u_content, line)
    /\ UNCHANGED <<prov, cli_args, api_responses, get_out, parsed, gpc, filterVars, syncVars, opsVars>>

\* KP_Get._parse_m3u( m3u_content, provider )
ParseCall ==
    /\ gpc = "input"
    /\ parsed' = parse_m3u(m3u_content, prov)
    /\ gpc' = "done"
    /\ UNCHANGED <<prov, cli_args, m3u_content, api_responses, get_out, filterVars, syncVars, opsVars>>

ParseInit == FilterStart /\ SyncIdle /\ GetIdle /\ OpsIdle

ParseNext == AddLine \/ ParseCall

ParseSpec == ParseInit /\ [][ParseNext]_vars

\* a provider row, the command-line options and, for a playlist provider, the
\* text its URL serves
GetInit ==
    /\ FilterStart
    /\ SyncIdle
    /\ OpsIdle
    /\ prov \in GetProviders
    /\ cli_args \in ArgSets
    /\ m3u_content \in (IF prov.sp_type = 1 THEN ContentPool ELSE {<< >>})
    /\ api_responses = [live |-> json_list(<< >>), series |-> json_list(<< >>),
                        vod |-> VodResponse]
    /\ get_out = GetStart
    /\ parsed = M3uStart
    /\ gpc = "input"

\* one more record in the JSON array an endpoint of the API provider answers with
AddRecord(group) ==
    /\ gpc = "input"
    /\ prov.sp_type # 1
    /\ api_responses[group].kind = "list"
    /\ Len(api_responses[group].items) < MaxRecords
    /\ \E item \in RecordPool :
          api_responses' = [api_responses EXCEPT ![group].items = Append(@, item)]
    /\ UNCHANGED <<prov, cli_args, m3u_content, get_out, parsed, gpc, filterVars, syncVars, opsVars>>

\* the endpoint answers with a JSON string instead of an array
ServeText(group) ==
    /\ gpc = "input"
    /\ prov.sp_type # 1
    /\ api_responses[group] = json_list(<< >>)
    /\ \E lines \in ContentPool \ {<< >>} :
          api_responses' = [api_responses EXCEPT ![group] = json_str(lines)]
    /\ UNCHANGED <<prov, cli_args, m3u_content, get_out, parsed, gpc, filterVars, syncVars, opsVars>>

\* KP_Get( ).get_streams( provider )
GetStreamsCall ==
    /\ gpc = "input"
    /\ get_out' = get_streams(prov, cli_args, m3u_content, api_responses)
    /\ gpc' = "done"
    /\ UNCHANGED <<prov, cli_args, m3u_content, api_responses, parsed, filterVars, syncVars, opsVars>>

GetNext ==
    \/ \E group \in {"live", "series"} : AddRecord(group)
    \/ \E group \in {"live", "series"} : ServeText(group)
    \/ GetStreamsCall

GetSpec == GetInit /\ [][GetNext]_vars

\* ------------------------------------------------------------- rate limit run
\* _get = KP_Get( ): the task's fetcher starts with last_request_time 0
CreateFetcher(t) ==
    /\ rpc[t] = "none"
    /\ last_request_time' = [last_request_time EXCEPT ![fetcher_of(t)] = 0]
    /\ rpc' = [rpc EXCEPT ![t] = "ready"]
    /\ UNCHANGED <<now, elapsed, wake_at, released, filterVars, syncVars, getVars, sideVars, testerVars, testRunVars, fixVars>>

\* elapsed = time.time( ) - self.last_request_time, before the next request
\* get_streams makes
DelayMeasure(t) ==
    /\ rpc[t] = "ready"
    /\ Len(released[t]) < request_count(t)
    /\ elapsed' = [elapsed EXCEPT ![t] = now - last_request_time[fetcher_of(t)]]
    /\ rpc' = [rpc EXCEPT ![t] = "measured"]
    /\ UNCHANGED <<now, last_request_time, wake_at, released,
                   filterVars, syncVars, getVars, sideVars, testerVars, testRunVars, fixVars>>

\* if elapsed < self.min_request_interval: time.sleep( ... ) is entered
DelaySleep(t) ==
    /\ rpc[t] = "measured"
    /\ IF sleep_for(elapsed[t]) > 0
       THEN /\ wake_at' = [wake_at EXCEPT ![t] = now + sleep_for(elapsed[t])]
            /\ rpc' = [rpc EXCEPT ![t] = "asleep"]
       ELSE /\ rpc' = [rpc EXCEPT ![t] = "stamp"]
            /\ UNCHANGED wake_at
    /\ UNCHANGED <<now, last_request_time, elapsed, released,
                   filterVars, syncVars, getVars, sideVars, testerVars, testRunVars, fixVars>>

\* time.sleep( ) returns, no earlier than asked
DelayWake(t) ==
    /\ rpc[t] = "asleep"
    /\ now >= wake_at[t]
    /\ rpc' = [rpc EXCEPT ![t] = "stamp"]
    /\ UNCHANGED <<now, last_request_time, elapsed, wake_at, released,
                   filterVars, syncVars, getVars, sideVars, testerVars, testRunVars, fixVars>>

\* self.last_request_time = time.time( ), and the request goes out
DelayStamp(t) ==
    /\ rpc[t] = "stamp"
    /\ last_request_time' = [last_request_time EXCEPT ![fetcher_of(t)] = now]
    /\ released' = [released EXCEPT ![t] = Append(@, now)]
    /\ rpc' = [rpc EXCEPT ![t] = "ready"]
    /\ UNCHANGED <<now, elapsed, wake_at, filterVars, syncVars, getVars, sideVars, testerVars, testRunVars, fixVars>>

\* the clock advances
Tick ==
    /\ now < MaxTime
    /\ now' = now + 1
    /\ UNCHANGED <<last_request_time, elapsed, wake_at, released, rpc,
                   filterVars, syncVars, getVars, sideVars, testerVars, testRunVars, fixVars>>

RateInit == FilterStart /\ SyncIdle /\ GetIdle /\ RateStart /\ TesterIdle /\ TestRunStart /\ FixIdle /\ SideIdle

RateNext ==
    \/ \E t \in RateTasks : CreateFetcher(t)
    \/ \E t \in RateTasks : DelayMeasure(t)
    \/ \E t \in RateTasks : DelaySleep(t)
    \/ \E t \in RateTasks : DelayWake(t)
    \/ \E t \in RateTasks : DelayStamp(t)
    \/ Tick

RateSpec == RateInit /\ [][RateNext]_vars

\* ------------------------------------------------------------- tester run
\* KP_StreamTester( ).test_stream( stream_data )
TestStreamCall ==
    /\ vpc = "input"
    /\ test_result' = test_stream(test_env.stream_data, test_env.reply,
                                  check_ffprobe_available(test_env.version_run),
                                  test_env.probe, test_env.range_reply)
    /\ vpc' = "done"
    /\ UNCHANGED <<test_env, filterVars, syncVars, getVars, sideVars, rateVars, testRunVars, fixVars>>

TesterInit ==
    /\ FilterStart
    /\ SyncIdle
    /\ GetIdle
    /\ SideIdle
    /\ RateStart
    /\ TestRunStart
    /\ FixIdle
    /\ test_env \in TestEnvs
    /\ test_result = NoVerdict
    /\ vpc = "input"

TesterNext == TestStreamCall

TesterSpec == TesterInit /\ [][TesterNext]_vars

\* ------------------------------------------------------------- test_streams run
\* streams = self._data._get_active_streams( ); with none, test_streams
\* returns; otherwise every stream's test is submitted to the pool
TestLoad ==
    /\ tspc = "load"
    /\ \E n \in 0..MaxTested :
          /\ active_streams' = active_rows(n)
          /\ test_futures' = [i \in 1..n |-> [state |-> "submitted"]]
          /\ tspc' = IF n = 0 THEN "done" ELSE "collect"
    /\ UNCHANGED <<yielded, tally, log_file, filterVars, syncVars, getVars, sideVars,
                   rateVars, testerVars, fixVars>>

\* a worker of the pool takes a submitted test
TestStart(i) ==
    /\ test_futures[i].state = "submitted"
    /\ Cardinality({j \in DOMAIN test_futures : test_futures[j].state = "running"})
          < TestWorkers
    /\ test_futures' = [test_futures EXCEPT ![i] = [state |-> "running"]]
    /\ UNCHANGED <<active_streams, yielded, tally, log_file, tspc,
                   filterVars, syncVars, getVars, sideVars, rateVars, testerVars, fixVars>>

\* _test_single_stream_simple returns
TestFinish(i) ==
    /\ test_futures[i].state = "running"
    /\ \E env \in RunEnvs, failure \in TestFailures :
          test_futures' = [test_futures EXCEPT ![i] =
              [state |-> "finished"] @@
              test_single_stream_simple(active_streams[i], env, failure)]
    /\ UNCHANGED <<active_streams, yielded, tally, log_file, tspc,
                   filterVars, syncVars, getVars, sideVars, rateVars, testerVars, fixVars>>

\* one iteration of `for future in as_completed( futures, timeout=7200 )`
TestCollect ==
    /\ tspc = "collect"
    /\ \E i \in DOMAIN test_futures \ yielded :
          /\ test_futures[i].state = "finished"
          /\ yielded' = yielded \cup {i}
          /\ tally' = record_result(tally, test_futures[i])
    /\ UNCHANGED <<active_streams, test_futures, log_file, tspc,
                   filterVars, syncVars, getVars, sideVars, rateVars, testerVars, fixVars>>

\* as_completed finds futures unfinished when the 7200 s are over: TimeoutError,
\* raised by the for statement, outside the try of the loop body
TestDeadline ==
    /\ tspc = "collect"
    /\ \E i \in DOMAIN test_futures : test_futures[i].state # "finished"
    /\ tspc' = "abort"
    /\ UNCHANGED <<active_streams, test_futures, yielded, tally, log_file,
                   filterVars, syncVars, getVars, sideVars, rateVars, testerVars, fixVars>>

\* the exception leaves the `with ThreadPoolExecutor` block, whose
\* shutdown( wait=True ) waits for the tests still running, and test_streams
TestAbort ==
    /\ tspc = "abort"
    /\ \A i \in DOMAIN test_futures : test_futures[i].state = "finished"
    /\ tspc' = "raised"
    /\ UNCHANGED <<active_streams, test_futures, yielded, tally, log_file,
                   filterVars, syncVars, getVars, sideVars, rateVars, testerVars, fixVars>>

\* the loop is exhausted and the pool left: the log file is written if there
\* is an invalid stream; a failure to write it is caught and reported
TestWriteLog ==
    /\ tspc = "collect"
    /\ yielded = DOMAIN test_futures
    /\ IF tally.invalid_streams = << >>
       THEN UNCHANGED log_file
       ELSE \E opened \in BOOLEAN :
               log_file' = IF opened
                           THEN [written |-> TRUE,
                                 lines |-> log_lines(tally.invalid_streams)]
                           ELSE log_file
    /\ tspc' = "done"
    /\ UNCHANGED <<active_streams, test_futures, yielded, tally,
                   filterVars, syncVars, getVars, sideVars, rateVars, testerVars, fixVars>>

TestRunInit ==
    /\ FilterStart
    /\ SyncIdle
    /\ GetIdle
    /\ SideIdle
    /\ RateStart
    /\ TesterIdle
    /\ TestRunStart
    /\ FixIdle

TestRunNext ==
    \/ TestLoad
    \/ \E i \in DOMAIN test_futures : TestStart(i)
    \/ \E i \in DOMAIN test_futures : TestFinish(i)
    \/ TestCollect
    \/ TestDeadline
    \/ TestAbort
    \/ TestWriteLog

TestRunSpec == TestRunInit /\ [][TestRunNext]_vars

\* ------------------------------------------------------------- remediation run
\* log_file = self._find_latest_log_file( ); without one fix_from_log returns
FixFind ==
    /\ fxpc = "find"
    /\ fxpc' = IF latest_log.found THEN "parse" ELSE "done"
    /\ UNCHANGED <<latest_log, db_faults, found_ids, batch, other_table, db_calls,
                   report, filterVars, syncVars, getVars, sideVars, rateVars, testerVars,
                   testRunVars>>

\* stream_ids = self._parse_log_file( log_file ), which runs _cleanup( );
\* without ids fix_from_log returns
FixParse ==
    /\ fxpc = "parse"
    /\ found_ids' = parse_log_file(latest_log.lines, db_faults.cleanup)
    /\ db_calls' = Append(db_calls, [proc |-> "Streams_CleanUp", arg |-> 0,
                                     outcome |-> db_faults.cleanup])
    /\ fxpc' = IF found_ids' = << >> THEN "done" ELSE "chunk"
    /\ UNCHANGED <<latest_log, db_faults, batch, other_table, report,
                   filterVars, syncVars, getVars, sideVars, rateVars, testerVars, testRunVars>>

\* one iteration of `for i in range( 0, len( stream_ids ), chunk_size )`
FixChunk ==
    /\ fxpc = "chunk"
    /\ batch.i < Len(found_ids)
    /\ LET chunk == chunk_at(found_ids, batch.i)
           moved == move_chunk(chunk, Len(batch.chunks) + 1, db_faults)
       IN /\ batch' = [i |-> next_chunk(found_ids, batch.i, moved.raised),
                       moved_count |-> batch.moved_count + moved.moved_count,
                       chunks |-> Append(batch.chunks,
                                         [start |-> batch.i, ids |-> chunk,
                                          failed |-> moved.raised,
                                          transaction |-> moved.transaction,
                                          persisted |-> moved.persisted])]
          /\ other_table' = other_table \cup moved.persisted
          /\ db_calls' = db_calls \o moved.calls
    /\ UNCHANGED <<latest_log, db_faults, found_ids, report, fxpc,
                   filterVars, syncVars, getVars, sideVars, rateVars, testerVars, testRunVars>>

\* the loop is over: the summary with "Streams to move", "Streams moved" and
\* the success or partial-success line
FixReport ==
    /\ fxpc = "chunk"
    /\ batch.i >= Len(found_ids)
    /\ report' = [printed |-> TRUE, found |-> Len(found_ids),
                  moved |-> batch.moved_count,
                  all_moved |-> batch.moved_count = Len(found_ids)]
    /\ fxpc' = "done"
    /\ UNCHANGED <<latest_log, db_faults, found_ids, batch, other_table, db_calls,
                   filterVars, syncVars, getVars, sideVars, rateVars, testerVars, testRunVars>>

FixInit ==
    /\ FilterStart
    /\ SyncIdle
    /\ GetIdle
    /\ SideIdle
    /\ RateStart
    /\ TesterIdle
    /\ TestRunStart
    /\ latest_log \in LogPool
    /\ db_faults \in FaultPool
    /\ found_ids = << >>
    /\ batch = BatchStart
    /\ other_table = {}
    /\ db_calls = << >>
    /\ report = NoReport
    /\ fxpc = "find"

FixNext == FixFind \/ FixParse \/ FixChunk \/ FixReport

FixSpec == FixInit /\ [][FixNext]_vars

\* ------------------------------------------------------------- test run, then remediation
\* test_streams( ) has collected the tests of a run; the working directory
\* holds the log of an earlier run or none
LogCollected ==
    /\ \E run \in TestedPool :
          /\ active_streams = [i \in 1..Len(run) |-> named_row(run[i].id, run[i].name)]
          /\ test_futures = [i \in 1..Len(run) |-> finished_test(run[i])]
          /\ yielded = 1..Len(run)
          /\ tally = collected(run)
    /\ log_file \in {NoLogFile, OlderLog}
    /\ tspc = "collect"

\* fix_from_log( ) is called after test_streams( ) has returned: the file its
\* _find_latest_log_file will pick is the newest one there is
FixStart ==
    /\ tspc = "done"
    /\ fxpc = "start"
    /\ latest_log' = newest_log(log_file)
    /\ fxpc' = "find"
    /\ UNCHANGED <<db_faults, found_ids, batch, other_table, db_calls, report,
                   filterVars, syncVars, getVars, sideVars, rateVars, testerVars, testRunVars>>

LogInit ==
    /\ FilterStart
    /\ SyncIdle
    /\ GetIdle
    /\ SideIdle
    /\ RateStart
    /\ TesterIdle
    /\ LogCollected
    /\ latest_log = [found |-> FALSE, lines |-> << >>]
    /\ db_faults = [cleanup |-> "ok", proc_error |-> {}, db_error |-> {},
                    no_transaction |-> {}]
    /\ found_ids = << >>
    /\ batch = BatchStart
    /\ other_table = {}
    /\ db_calls = << >>
    /\ report = NoReport
    /\ fxpc = "start"

LogNext == TestWriteLog \/ FixStart \/ FixFind \/ FixParse \/ FixChunk \/ FixReport

LogSpec == LogInit /\ [][LogNext]_vars

\* ------------------------------------------------------------- KP_Sync( )
\* KP_Sync.__init__: the default from the processor count, then
\* _determine_thread_count
SyncConstruct ==
    /\ mpc = "new"
    /\ max_threads' = determine_thread_count(threads_arg,
                                             default_threads(cpu_count_or_1(cpu_count)))
    /\ mpc' = "load"
    /\ UNCHANGED <<taskVars, providers, results, has_errors, timed_out, late,
                   final_log, summary, dbVars, filterVars, getVars, opsVars>>

\* KP_Sync( ) is about to be called on a machine with some processor count
PoolInit ==
    /\ FilterStart
    /\ GetIdle
    /\ OpsIdle
    /\ SyncFresh
    /\ cpu_count \in CpuCounts
    /\ threads_arg \in ThreadArgPool
    /\ max_threads = 0
    /\ mpc = "new"

PoolNext == SyncConstruct

PoolSpec == PoolInit /\ [][PoolNext]_vars

\* ------------------------------------------------------------- filter lookups
\* how many times the filters of one user are looked up in a run
MaxLookups == 10

\* self._data._get_filters( uid ), as _process_provider calls it under the
\* lock for a provider of the user
GetFiltersCall(uid) ==
    /\ filter_lookups[uid] < MaxLookups
    /\ LET call == get_filters(uid)
       IN /\ cache' = call.cache
          /\ filter_lookups' = [filter_lookups EXCEPT ![uid] = @ + 1]
          /\ filter_queries' = [filter_queries EXCEPT ![uid] =
                                    IF call.queried THEN @ + 1 ELSE @]
    /\ UNCHANGED <<taskVars, mainVars, db_lock, thread_lock, stream_temp, refreshed,
                   filterVars, getVars, rateVars, testerVars, testRunVars, fixVars,
                   ctorVars, whereVars>>

CacheInit == FilterStart /\ SyncIdle /\ GetIdle /\ OpsIdle

CacheNext == \E uid \in DOMAIN stream_filters : GetFiltersCall(uid)

CacheSpec == CacheInit /\ [][CacheNext]_vars

\* ------------------------------------------------------------- repository calls
\* KP_DB.get_all( table, where=where ) and KP_DB.delete( table, where )
DbCall(api) ==
    /\ ~where_out.done
    /\ where_out' = db_call(api, where_arg)
    /\ UNCHANGED <<where_arg, filterVars, syncVars, getVars, rateVars, testerVars,
                   testRunVars, fixVars, ctorVars, lookupVars>>

WhereInit ==
    /\ FilterStart
    /\ SyncIdle
    /\ GetIdle
    /\ RateStart
    /\ TesterIdle
    /\ TestRunStart
    /\ FixIdle
    /\ LookupIdle
    /\ where_arg \in WherePool
    /\ where_out = NoCall

WhereNext == \E api \in {"get_all", "delete"} : DbCall(api)

WhereSpec == WhereInit /\ [][WhereNext]_vars

\* ------------------------------------------------------------- filter claims
\* what the rule kinds are documented to test, stated on the regex primitives
IncludeRuleMatches(rule, stream) ==
    /\ rule.sf_type_id = 0
    /\ regex_compile_ok(rule.sf_filter)
    /\ regex_findall_nonempty(rule.sf_filter, stream.stream_name)

ExcludeRuleMatches(rule, stream) ==
    \/ /\ rule.sf_type_id = 1
       /\ str_in(str_lower(rule.sf_filter), str_lower(stream.stream_name))
    \/ /\ rule.sf_type_id = 2
       /\ regex_compile_ok(rule.sf_filter)
       /\ regex_findall_nonempty(rule.sf_filter, stream.stream_name)
    \/ /\ rule.sf_type_id = 3
       /\ regex_compile_ok(rule.sf_filter)
       /\ regex_findall_nonempty(rule.sf_filter, stream.stream_url)

SomeIncludeMatches(stream) ==
    \E i \in 1..Len(db_filters) : IncludeRuleMatches(db_filters[i], stream)

ExcludeMatchIndexes(stream) ==
    {i \in 1..Len(db_filters) : ExcludeRuleMatches(db_filters[i], stream)}

Removed(id) == id \in DOMAIN normalized_data /\ id \notin DOMAIN filtered_streams

KeptUnchanged(id) ==
    /\ id \in DOMAIN filtered_streams
    /\ filtered_streams[id] = normalized_data[id]

\* C1: a stream whose name is matched by at least one include rule (kind 0) is in
\* the output, whatever exclude rules are in the list and wherever they stand.
C1_IncludeAlwaysKept ==
    fpc = "done" =>
        \A id \in DOMAIN normalized_data :
            SomeIncludeMatches(normalized_data[id]) => KeptUnchanged(id)

\* C1 witness: an exclude rule that matches the stream stands before the include
\* rule that matches it, and the stream is in the output.
C1_Witness ==
    /\ fpc = "done"
    /\ \E id \in DOMAIN normalized_data :
          \E i, j \in 1..Len(db_filters) :
              /\ i < j
              /\ ExcludeRuleMatches(db_filters[i], normalized_data[id])
              /\ IncludeRuleMatches(db_filters[j], normalized_data[id])
              /\ id \in DOMAIN filtered_streams

\* C2: with a non-empty rule list, a stream no include rule matches is removed
\* exactly when some exclude rule (kind 1 contains, kind 2 name pattern, kind 3
\* URL pattern, all case-insensitive) matches it; the rules are tried in list
\* order and the loop stops at the first matching exclude rule; a stream no
\* rule matches is kept.
C2_ExcludeFirstMatch ==
    (fpc = "done" /\ db_filters # << >>) =>
        \A id \in DOMAIN normalized_data :
            ~SomeIncludeMatches(normalized_data[id]) =>
                LET hits == ExcludeMatchIndexes(normalized_data[id]) IN
                /\ Removed(id) <=> hits # {}
                /\ hits # {} => /\ tried[id] \in hits
                                /\ \A i \in hits : tried[id] <= i
                /\ hits = {} => /\ KeptUnchanged(id)
                                /\ tried[id] = Len(db_filters)

\* C2 witness: one stream is removed by a URL rule that is not the last rule of
\* the list (the rules after it are not looked at), after a rule that did not
\* match it, and another stream that no rule matches is kept.
C2_Witness ==
    /\ fpc = "done"
    /\ \E id \in DOMAIN normalized_data :
          /\ Removed(id)
          /\ 1 < tried[id]
          /\ tried[id] < Len(db_filters)
          /\ db_filters[tried[id]].sf_type_id = 3
          /\ ExcludeRuleMatches(db_filters[Len(db_filters)], normalized_data[id])
    /\ \E id \in DOMAIN filtered_streams : tried[id] = Len(db_filters)

\* the rule list without its i-th rule
WithoutRule(filters, i) ==
    [k \in 1..(Len(filters) - 1) |-> IF k < i THEN filters[k] ELSE filters[k + 1]]

\* a rule whose pattern the filter compiles (kinds 0, 2, 3) and that does not compile
Malformed(rule) ==
    rule.sf_type_id \in {0, 2, 3} /\ ~regex_compile_ok(rule.sf_filter)

\* C3: a rule whose pattern fails to compile changes nothing: the result equals
\* the result of filtering with that rule removed from the list.
C3_MalformedRuleIsAbsent ==
    fpc = "done" =>
        \A i \in 1..Len(db_filters) :
            Malformed(db_filters[i]) =>
                filtered_streams = filter_streams(normalized_data, WithoutRule(db_filters, i))

\* C3 witness: a list with a malformed rule and well-formed ones, filtering a
\* batch of which one stream is removed and one is kept.
C3_Witness ==
    /\ fpc = "done"
    /\ \E i \in 1..Len(db_filters) : Malformed(db_filters[i])
    /\ \E i \in 1..Len(db_filters) : ~Malformed(db_filters[i])
    /\ \E id \in DOMAIN normalized_data : Removed(id)
    /\ DOMAIN filtered_streams # {}

\* C4: filtering the empty stream set yields the empty set, for every rule list;
\* filtering with the empty rule list yields exactly the input stream set.
C4_IdentityLaws ==
    fpc = "done" =>
        /\ DOMAIN normalized_data = {} => DOMAIN filtered_streams = {}
        /\ db_filters = << >> =>
              /\ DOMAIN filtered_streams = DOMAIN normalized_data
              /\ \A id \in DOMAIN normalized_data : KeptUnchanged(id)

\* C4 witness: a non-empty batch filtered with the empty rule list.
C4_Witness ==
    /\ fpc = "done"
    /\ db_filters = << >>
    /\ Cardinality(DOMAIN normalized_data) >= 2
    /\ DOMAIN filtered_streams = DOMAIN normalized_data

\* ------------------------------------------------------------- sync claims
MainPastPool == mpc \in {"final_wait", "merge", "cleanup", "fixup", "summary", "returned"}

MergeStarted == mpc \in {"merge", "cleanup", "fixup", "summary", "returned"}

\* C5: a task one of whose steps raised returns (0, 0, providerName, errorText);
\* no task makes sync() give up on the others; when no deadline elapses the
\* collected results hold exactly one outcome per loaded provider.
C5_FailureIsolation ==
    /\ \A p \in providers :
          (tpc[p] = "done" /\ raised_in[p] # "none") =>
              /\ future[p].raises = FALSE
              /\ future[p].total = 0
              /\ future[p].filtered = 0
              /\ future[p].name = ProviderPool[p].sp_name
              /\ future[p].error # "None"
    /\ mpc \in {"abort", "raised"} => timed_out
    /\ MainPastPool =>
          /\ Len(results) = Cardinality(providers)
          /\ \A p \in providers :
                /\ tpc[p] = "done"
                /\ \E i \in 1..Len(results) : results[i] = future[p]

\* C5 witness: sync() returned without a deadline; the fetch of one provider
\* raised, its outcome is the error tuple, and another provider inserted rows.
C5_Witness ==
    /\ mpc = "returned"
    /\ ~timed_out
    /\ Cardinality(providers) = 3
    /\ \E p, q \in providers :
          /\ raised_in[p] = "fetch"
          /\ future[p].error = "Fetch error"
          /\ raised_in[q] = "none"
          /\ future[q].error = "None"
          /\ future[q].filtered > 0
          /\ \E i, j \in 1..Len(summary.results) :
                summary.results[i] = future[p] /\ summary.results[j] = future[q]

\* C6 (as claimed): when the deadline elapses with a task unfinished, sync()
\* still runs merge, cleanup and fixup and still produces the summary.
C6_DeadlineStillFinalizes ==
    (timed_out /\ late # {} /\ mpc \in {"raised", "returned"}) =>
        /\ mpc = "returned"
        /\ Len(final_log) = 3
        /\ summary # NoResult

\* C7 (as claimed): a failing merge, cleanup or fixup sets the run-level error
\* flag, and the summary reports completion with errors.
C7_FinalFailureFlagsRun ==
    (mpc = "returned" /\ \E i \in 1..Len(final_log) : final_log[i].outcome # "ok") =>
        /\ summary # NoResult
        /\ summary.has_errors

\* C8: merge, cleanup and fixup are called in this order inside one hold of the
\* write lock by the thread of sync(), and merge starts only when every
\* submitted task has finished: no task is left that could insert into the
\* staging table or update a refresh timestamp.
C8_FinalizationOrdering ==
    /\ Len(final_log) <= 3
    /\ \A i \in 1..Len(final_log) : final_log[i].op = FinalOps[i]
    /\ mpc \in {"merge", "cleanup", "fixup"} =>
          /\ db_lock = MainThread
          /\ FinalOps[Len(final_log) + 1] = mpc
    /\ (MergeStarted \/ final_log # << >>) =>
          \A p \in ProviderIds : tpc[p] \in {"none", "done"}

\* C8 witness: two providers inserted rows, then the three final operations
\* ran and sync() returned.
C8_Witness ==
    /\ mpc = "returned"
    /\ Len(final_log) = 3
    /\ \E p, q \in providers :
          /\ p # q
          /\ \E r \in stream_temp : r.p_id = p
          /\ \E r \in stream_temp : r.p_id = q

\* the threads that are inside a repository write
Writers ==
    {p \in ProviderIds : tpc[p] \in {"insert", "update"}}
        \cup (IF mpc \in {"merge", "cleanup", "fixup"} THEN {MainThread} ELSE {})

\* C9: at most one thread is inside a repository write (bulk insert,
\* refresh-timestamp update, merge, cleanup, fixup), and that thread holds the
\* write lock.
C9_WriteMutualExclusion ==
    /\ Cardinality(Writers) <= 1
    /\ \A w \in Writers : db_lock = w

\* C9 witness: one task is inside its timestamp update, holding the lock, while
\* another task waits to enter its write segment.
C9_Witness ==
    \E p, q \in providers :
        /\ p # q
        /\ tpc[p] = "update"
        /\ db_lock = p
        /\ tpc[q] = "insert_wait"

\* C10: a task that is fetching, normalizing or filtering holds neither lock,
\* and its fetch can return whoever holds the write lock.
C10_NoLockDuringFetch ==
    \A p \in providers :
        tpc[p] \in {"fetch", "filter"} =>
            /\ db_lock # p
            /\ thread_lock # p
            /\ tpc[p] = "fetch" => ENABLED TaskFetchReturn(p)

\* C10 witness: two tasks are in their fetch phase while a third one is inside
\* its bulk insert, holding the write lock.
C10_Witness ==
    \E p, q, r \in providers :
        /\ p # q
        /\ tpc[p] = "fetch"
        /\ tpc[q] = "fetch"
        /\ tpc[r] = "insert"
        /\ db_lock = r


\* the tasks inside their bulk-insert / timestamp-update segment
InsideWriteSegment == {q \in ProviderIds : tpc[q] \in {"insert", "update"}}

\* C11 (as claimed): the filter lookup takes a lock of its own, so a task that is
\* about to do its filter lookup can go on whenever the only lock holder is a
\* task inside its bulk-insert / timestamp-update segment.
C11_LookupNeverWaitsForWriter ==
    \A p \in providers :
        (tpc[p] = "lookup_wait" /\ db_lock \in InsideWriteSegment) =>
            ENABLED TaskLookupEnter(p)

\* the providers whose owning user has no active filter rule
OwnerHasNoRules == {p \in ProviderIds : stream_filters[ProviderPool[p].u_id] = << >>}

\* C12 (as claimed): the task of a provider whose owner has no active filter
\* rule stops after the lookup: it is never in a later step, no staging row
\* carries its provider id, and its outcome is the "no filters" error.
C12_NoFiltersStopsTask ==
    \A p \in providers \cap OwnerHasNoRules :
        /\ tpc[p] \in {"queued", "lookup_wait", "lookup", "done"}
        /\ \A r \in stream_temp : r.p_id # p
        /\ (tpc[p] = "done" /\ raised_in[p] = "none") =>
              future[p].error = "No filters found"

\* C13 (as claimed): the timestamp update a task makes at the end of its write
\* segment is addressed to the provider the task synchronises, and to no other:
\* the only argument it adds to the calls made is that provider's id.
C13_UpdatesOwnProviderTimestamp ==
    [][\A p \in ProviderIds :
          TaskUpdateReturn(p) =>
              /\ db_lock = p
              /\ refreshed' \subseteq (refreshed \cup {ProviderPool[p].id})]_vars

\* ------------------------------------------------------------- fetch claims
\* the playlist as the claims read it: stripped lines, marker lines, and for
\* an entry the first later line that is a URL line or a comment line
Stripped(k) == str_strip(m3u_content[k])

MarkerLines == {k \in 1..Len(m3u_content) : startswith(Stripped(k), ExtinfMarker)}

IsUrlLine(k) == startswith(Stripped(k), <<"h","t","t","p">>)

IsCommentLine(k) == startswith(Stripped(k), <<"#">>)

EntryEnd(k) ==
    LET after == {j \in (k + 1)..Len(m3u_content) : IsUrlLine(j) \/ IsCommentLine(j)}
    IN IF after = {} THEN 0 ELSE SetMin(after)

\* the entries a URL line terminates, and those it does not
Terminated == {k \in MarkerLines : EntryEnd(k) # 0 /\ IsUrlLine(EntryEnd(k))}

Unterminated == MarkerLines \ Terminated

CommittedLines == {parsed.commits[a].line : a \in 1..Len(parsed.commits)}

\* C14: an entry that no URL line terminates (a marker line, a comment line or
\* the end of the input comes first) puts no stream in the output and adds
\* exactly one to the skipped count.
C14_UnterminatedEntrySkipped ==
    gpc = "done" =>
        /\ \A k \in Unterminated :
              /\ k \notin CommittedLines
              /\ Cardinality({a \in 1..Len(parsed.skips) : parsed.skips[a] = k}) = 1
        /\ parsed.skipped_count = Cardinality(Unterminated)
        /\ Cardinality(DOMAIN parsed.normalized) = Cardinality(Terminated)

\* C14 witness: one parse with entries cut short by a marker line, by a comment
\* line and by the end of the input, one of them after a continuation line.
C14_Witness ==
    /\ gpc = "done"
    /\ \E k \in Unterminated : EntryEnd(k) = 0
    /\ \E k \in Unterminated : EntryEnd(k) # 0 /\ EntryEnd(k) \in MarkerLines
    /\ \E k \in Unterminated : EntryEnd(k) # 0 /\ EntryEnd(k) \notin MarkerLines
    /\ \E k \in Unterminated : k < Len(m3u_content) /\ Stripped(k + 1) = <<"H", "D">>
    /\ parsed.skipped_count = 3

\* the id a committed stream's name strips to
BaseId(stream_id) == str_lower(strip_non_alnum(parsed.normalized[stream_id].stream_name))

\* the ids of the entries committed before the a-th
EarlierIds(a) == {parsed.commits[b].stream_id : b \in 1..(a - 1)}

\* base, or base with the first suffix _1, _2, ... that is not among the taken ids
FirstFreeId(base, taken) ==
    IF base \notin taken THEN base
    ELSE base \o <<"_">> \o
         decimal(SetMin({n \in 1..(Cardinality(taken) + 1) :
                            (base \o <<"_">> \o decimal(n)) \notin taken}))

Combined == get_out.combined

RequestedGroups == {get_out.requested[i].group : i \in 1..Len(get_out.requested)}

IsApiProvider == prov.sp_type # 1

\* the position of a group in the order the API loop goes: live, then series
GroupRank(group) == IF group = "live" THEN 1 ELSE 2

\* what one requested group contributed: the output of its normalization
GroupOutput(group) ==
    LET data == normalize_data(api_responses[group], group, prov)
    IN IF data.raised THEN << >> ELSE data.normalized

\* the records of a JSON array that resolve to the id: they have it as their
\* stream or series id, and the fields their group requires
ResolvingTo(group, id) ==
    {n \in 1..Len(api_responses[group].items) :
        LET mapped == map_item(api_responses[group].items[n], group, prov)
        IN mapped.status = "ok" /\ mapped.stream_id = id}

\* the API part of C16: within one endpoint's answer, and across the endpoints
C16_LaterRecordWins ==
    /\ \A group \in RequestedGroups :
          api_responses[group].kind = "list" =>
              \A id \in DOMAIN GroupOutput(group) :
                  /\ ResolvingTo(group, id) # {}
                  /\ GroupOutput(group)[id] =
                        map_item(api_responses[group].items[
                                     SetMax(ResolvingTo(group, id))],
                                 group, prov).row
    /\ DOMAIN Combined = UNION {DOMAIN GroupOutput(group) : group \in RequestedGroups}
    /\ \A id \in DOMAIN Combined :
          LET yielding == {group \in RequestedGroups : id \in DOMAIN GroupOutput(group)}
              last == CHOOSE group \in yielding :
                          \A other \in yielding : GroupRank(other) <= GroupRank(group)
          IN Combined[id] = GroupOutput(last)[id]

\* C16: the stream set get_streams returns is keyed by id, each stream under
\* its own id; of the records of one endpoint that resolve to the same id the
\* later one gives the stream its fields, and of two endpoints that both
\* yield an id the one requested later does.
C16_LastWriteWins ==
    gpc = "done" =>
        /\ \A id \in DOMAIN Combined : Combined[id].stream_id = id
        /\ IsApiProvider => C16_LaterRecordWins

\* C16 witness: the live endpoint answers with two records of id 5, Movie
\* Night first and CNN 247 second, and the series endpoint with nothing that
\* resolves to 5: the stream returned under 5 is CNN 247.
C16_Witness ==
    /\ gpc = "done"
    /\ IsApiProvider
    /\ RequestedGroups = {"live", "series"}
    /\ api_responses["live"].kind = "list"
    /\ Cardinality(ResolvingTo("live", <<"5">>)) = 2
    /\ api_responses["live"].items[1] = MovieNight
    /\ <<"5">> \notin DOMAIN GroupOutput("series")
    /\ Combined[<<"5">>].stream_name = <<"C","N","N"," ","2","4","7">>

\* C17: for a playlist provider with hint Live the two-line playlist
\* `#EXTINF:-1 group-title="News",<name>` / `http://x/cnn.ts` gives exactly one
\* stream: with name CNN id cnn, kind Live (0), group live; with name CNN 24/7
\* kind Series (5), group series.
C17_PlaylistScenarios ==
    (gpc = "done" /\ prov = PlaylistProvider) =>
        /\ m3u_content = ScenarioA =>
              /\ DOMAIN Combined = {<<"c","n","n">>}
              /\ Combined[<<"c","n","n">>].stream_id = <<"c","n","n">>
              /\ Combined[<<"c","n","n">>].stream_name = <<"C","N","N">>
              /\ Combined[<<"c","n","n">>].stream_url = <<"h","t","t","p",":","/","/","x","/","c","n","n",".","t","s">>
              /\ Combined[<<"c","n","n">>].stream_type = 0
              /\ Combined[<<"c","n","n">>].stream_group = "live"
        /\ m3u_content = ScenarioB =>
              /\ Cardinality(DOMAIN Combined) = 1
              /\ \A id \in DOMAIN Combined :
                    /\ Combined[id].stream_name = <<"C","N","N"," ","2","4","/","7">>
                    /\ Combined[id].stream_type = 5
                    /\ Combined[id].stream_group = "series"

\* C17 witness: get_streams returned for the playlist provider serving the
\* CNN 24/7 playlist, with one text request made and one stream returned.
C17_Witness ==
    /\ gpc = "done"
    /\ prov = PlaylistProvider
    /\ m3u_content = ScenarioB
    /\ Len(get_out.requested) = 1
    /\ get_out.requested[1].is_m3u
    /\ Cardinality(DOMAIN Combined) = 1

\* C18 (as claimed): the live record Movie Night (stream_id 5) of an API
\* provider with hint Live is normalized to kind Vod (3), and its URL is built
\* from the VOD-path template.
C18_MovieNightBecomesVod ==
    (/\ gpc = "done"
     /\ prov = ApiProvider(0)
     /\ "live" \in RequestedGroups
     /\ api_responses["live"] = json_list(<<MovieNight>>)
     /\ api_responses["series"] = json_list(<< >>)) =>
        /\ DOMAIN Combined = {<<"5">>}
        /\ Combined[<<"5">>].stream_type = 3
        /\ Combined[<<"5">>].stream_url =
              stream_url_of("vod", prov, <<"5">>, container_ext(prov))

\* C19 (as claimed): for a playlist provider get_streams requests no API
\* endpoint; for an API provider it neither fetches nor parses playlist text.
C19_SourceKindExclusive ==
    gpc = "done" =>
        /\ ~IsApiProvider =>
              \A i \in 1..Len(get_out.requested) : get_out.requested[i].is_m3u
        /\ IsApiProvider =>
              /\ \A i \in 1..Len(get_out.requested) : ~get_out.requested[i].is_m3u
              /\ get_out.m3u_parses = 0

\* C20 (as claimed): for an API provider, with no stream-type option exactly
\* the live and series endpoints are requested, and the vod endpoint is
\* requested if and only if --vod was given.
C20_VodOnlyOnRequest ==
    (gpc = "done" /\ IsApiProvider) =>
        /\ cli_args = NoOptions => RequestedGroups = {"live", "series"}
        /\ "vod" \in RequestedGroups <=> cli_args.vod


\* the records of a requested endpoint's JSON array that have an id and the
\* fields their group requires
Mappable(group) ==
    {n \in 1..Len(api_responses[group].items) :
        {"name", "category_id"} \cup (IF group = "live" THEN {"epg_channel_id"} ELSE {})
            \subseteq DOMAIN api_responses[group].items[n]
        /\ \E key \in {"stream_id", "series_id"} :
              /\ key \in DOMAIN api_responses[group].items[n]
              /\ ~falsy(api_responses[group].items[n][key])
        /\ api_responses[group].items[n]["name"] # JsonNull}

\* C21 (as claimed): a record of an API batch that cannot be mapped is skipped,
\* and every other record of the batch that has its required fields is in the
\* stream set get_streams returns: one bad record never aborts the batch.
C21_BadRecordNeverAbortsBatch ==
    (gpc = "done" /\ IsApiProvider) =>
        \A group \in RequestedGroups :
            api_responses[group].kind = "list" =>
                \A n \in Mappable(group) :
                    LET item == api_responses[group].items[n]
                    IN item_get(item, "stream_id", item_get(item, "series_id", JsonNull))
                           \in DOMAIN Combined

\* the time a task's fetcher last let a request go
LastRelease(t) == released[t][Len(released[t])]

\* C22: two consecutive requests of one fetcher are released at least the
\* minimum interval apart, and a fetcher waits only on its own account: never
\* before its first request, and only when its own last request is less than
\* the interval old, until that request is the interval old.
C22_MinimumIntervalPerFetcher ==
    \A t \in RateTasks :
        /\ \A i \in 1..(Len(released[t]) - 1) :
              released[t][i + 1] - released[t][i] >= min_request_interval
        /\ rpc[t] = "asleep" =>
              /\ released[t] # << >>
              /\ elapsed[t] < min_request_interval
              /\ wake_at[t] >= LastRelease(t) + min_request_interval
        /\ rpc[t] \in {"measured", "asleep", "stamp"} /\ released[t] # << >> =>
              elapsed[t] <= now - LastRelease(t)

\* C22 witness: the first task's fetcher has released its two requests exactly
\* the interval apart, and the second task's fetcher released its request in
\* between without waiting for it.
C22_Witness ==
    /\ Len(released["p1"]) = 2
    /\ released["p1"][2] - released["p1"][1] = min_request_interval
    /\ Len(released["p2"]) = 1
    /\ released["p1"][1] < released["p2"][1]
    /\ released["p2"][1] < released["p1"][2]
    /\ wake_at["p2"] = 0

\* ------------------------------------------------------------- tester claims
TestedUrl == test_env.stream_data.s_stream_uri

\* the GET of the combined path was answered with an accepted status
GetAccepted ==
    test_env.reply.kind = "response" /\ test_env.reply.status_code \in {200, 206}

\* the HTTP check passes: an accepted status and at least one byte read
HttpCheckPasses ==
    /\ GetAccepted
    /\ test_env.reply.chunk = "bytes"
    /\ test_env.reply.first_chunk # << >>

Verdict == <<test_result.is_valid, test_result.error>>

C24_ProbeNeverDowngrades ==
    (vpc = "done" /\ TestedUrl # << >> /\ HttpCheckPasses) =>
        Verdict = <<TRUE, << >> >>

\* C24 witness: the HTTP check passed, two stream types were detected, ffprobe
\* ran and found no video stream, and the verdict is valid.
C24_Witness ==
    /\ vpc = "done"
    /\ HttpCheckPasses
    /\ test_result.probed
    /\ test_env.probe.kind = "exit"
    /\ test_env.probe.returncode = 0
    /\ test_env.probe.stdout = "object"
    /\ test_env.probe.probe_data.streams # << >>
    /\ video_streams(test_env.probe.probe_data) = << >>
    /\ test_result.detected = {"hls", "video_file", "transport_stream"}
    /\ test_result.is_valid

\* C25 (as claimed): when the GET of the combined path raises an exception that
\* is neither a timeout nor a connection error, test_stream makes the range
\* request and returns its verdict: the stream is valid exactly when the range
\* request is answered with 200 or 206.
C25_FallbackOnUnexpectedException ==
    (vpc = "done" /\ TestedUrl # << >> /\ test_env.reply.kind = "raise") =>
        /\ test_result.requests = <<"get", "range">>
        /\ test_result.is_valid <=>
              /\ test_env.range_reply.kind = "response"
              /\ test_env.range_reply.status_code \in {200, 206}

\* ------------------------------------------------------------- test_streams claims
\* the streams whose test came back invalid, a failed test task included
InvalidTested ==
    {i \in DOMAIN test_futures :
        test_futures[i].state = "finished" /\ ~test_futures[i].is_valid}

ValidTested ==
    {i \in DOMAIN test_futures :
        test_futures[i].state = "finished" /\ test_futures[i].is_valid}

\* the k-th block of the log file: the six lines after the three header lines
\* and the blocks before it
LogBlock(k) == SubSeq(log_file.lines, 6 * k - 2, 6 * k + 3)

\* the block is the one of stream i: its id, name, URL, provider and error
BlockOf(k, i) ==
    /\ LogBlock(k)[1] = <<"I","D",":"," ">> \o decimal(active_streams[i].id)
    /\ LogBlock(k)[2] = <<"N","a","m","e",":"," ">> \o active_streams[i].s_orig_name
    /\ LogBlock(k)[3] = <<"U","R","L",":"," ">> \o active_streams[i].s_stream_uri
    /\ LogBlock(k)[4] = <<"P","r","o","v","i","d","e","r",":"," ">> \o active_streams[i].sp_name
    /\ LogBlock(k)[5] = <<"E","r","r","o","r",":"," ">> \o test_futures[i].error

\* C26: when test_streams has collected every test, each loaded stream is
\* counted once (valid + invalid = tested = the number of streams), and a log
\* file that was written holds one block for each invalid stream, those whose
\* test task failed included, and no other block; with no invalid stream no
\* file is written.
C26_EveryStreamCountedAndLogged ==
    tspc = "done" =>
        /\ tally.tested_count = Len(active_streams)
        /\ tally.valid_count + tally.invalid_count = Len(active_streams)
        /\ tally.valid_count = Cardinality(ValidTested)
        /\ tally.invalid_count = Cardinality(InvalidTested)
        /\ InvalidTested = {} => ~log_file.written
        /\ log_file.written =>
              /\ Len(log_file.lines) = 3 + 6 * Cardinality(InvalidTested)
              /\ \A i \in InvalidTested :
                    Cardinality({k \in 1..Cardinality(InvalidTested) : BlockOf(k, i)}) = 1

\* C26 witness: three streams, one valid, one answering 404 and one whose test
\* task failed; the log holds the two blocks.
C26_Witness ==
    /\ tspc = "done"
    /\ Len(active_streams) = 3
    /\ Cardinality(ValidTested) = 1
    /\ \E i \in InvalidTested : test_futures[i].error = <<"H","T","T","P"," ","e","r","r","o","r",":"," ","4","0","4">>
    /\ \E i \in InvalidTested : test_futures[i].error = <<"T","e","s","t","i","n","g"," ","e","r","r","o","r",":"," ","b","o","o","m">>
    /\ log_file.written
    /\ Len(log_file.lines) = 15

\* C27 (as claimed): when the deadline ends test_streams with tests unfinished,
\* the tests not collected are in no counter, and the log file is written for
\* the invalid streams collected so far.
C27_DeadlineStillWritesLog ==
    tspc = "raised" =>
        /\ tally.tested_count = Cardinality(yielded)
        /\ tally.valid_count + tally.invalid_count = Cardinality(yielded)
        /\ tally.invalid_streams # << >> =>
              /\ log_file.written
              /\ Len(log_file.lines) = 3 + 6 * Len(tally.invalid_streams)

\* ------------------------------------------------------------- remediation claims
\* the number of chunks a list of n ids falls into
ChunkCount(n) == (n + chunk_size - 1) \div chunk_size

\* the positions of found_ids the k-th chunk done holds
ChunkPositions(k) ==
    {p \in 1..Len(found_ids) :
        batch.chunks[k].start < p /\ p <= batch.chunks[k].start + Len(batch.chunks[k].ids)}

\* C28: the ids are taken in log order in consecutive chunks of at most 100;
\* when the batch is over every id is in exactly one chunk, and every chunk
\* was attempted, whatever failed in the chunks before it.
C28_ChunksCoverIdsInOrder ==
    /\ \A k \in 1..Len(batch.chunks) :
          /\ batch.chunks[k].start = chunk_size * (k - 1)
          /\ Len(batch.chunks[k].ids) \in 1..chunk_size
          /\ \A p \in 1..Len(batch.chunks[k].ids) :
                batch.chunks[k].ids[p] = found_ids[batch.chunks[k].start + p]
    /\ report.printed =>
          /\ Len(batch.chunks) = ChunkCount(Len(found_ids))
          /\ \A p \in 1..Len(found_ids) :
                Cardinality({k \in 1..Len(batch.chunks) : p \in ChunkPositions(k)}) = 1

\* C28 witness: 201 ids, the first chunk failed at its second id, and the
\* chunks of the next 100 ids and of the last id were still done.
C28_Witness ==
    /\ report.printed
    /\ Len(found_ids) = MaxIds
    /\ Len(batch.chunks) = 3
    /\ batch.chunks[1].failed
    /\ ~batch.chunks[2].failed
    /\ batch.chunks[2].persisted # {}
    /\ batch.chunks[3].ids = <<MaxIds>>

\* a move of the k-th chunk failed
FailedIn(k) ==
    \/ k \in db_faults.no_transaction
    \/ \E p \in 1..Len(batch.chunks[k].ids) :
          move_outcome(batch.chunks[k].ids[p], db_faults) # "ok"

ChunkIds(k) == {batch.chunks[k].ids[p] : p \in 1..Len(batch.chunks[k].ids)}

\* C29 (as claimed): a chunk is all or nothing: when a move of the chunk
\* failed none of the chunk's ids is in the other table, and the ids of the
\* chunks without a failure all are.
C29_ChunkAllOrNothing ==
    \A k \in 1..Len(batch.chunks) :
        IF FailedIn(k)
        THEN ChunkIds(k) \cap other_table = {}
        ELSE ChunkIds(k) \subseteq other_table

\* C30 (as claimed): the summary's "to move" is the number of ID entries of
\* the log, its "moved" is the number of ids whose move is persisted, which
\* never exceeds the former, and full success is reported only when every
\* found id is in the other table.
C30_ReportCountsPersistedMoves ==
    report.printed =>
        /\ report.found = Cardinality({n \in 1..Len(latest_log.lines) :
                                          id_line(latest_log.lines[n])})
        /\ report.moved = Cardinality(other_table)
        /\ report.moved <= report.found
        /\ report.all_moved =>
              {found_ids[p] : p \in 1..Len(found_ids)} \subseteq other_table
\* ------------------------------------------------------------- log claims
\* the ids of the streams a run found invalid, in the order of invalid_streams
InvalidIds == [i \in 1..Len(tally.invalid_streams) |-> tally.invalid_streams[i][1].id]

\* the newest log is the one this run of test_streams wrote
WroteOwnLog ==
    /\ tally.invalid_streams # << >>
    /\ log_file = [written |-> TRUE, lines |-> log_lines(tally.invalid_streams)]

\* _parse_log_file has returned
LogParsed == fxpc \in {"chunk", "done"} /\ db_calls # << >>

\* C31: the log parser applied to the file test_streams wrote returns exactly
\* the ids of the invalid streams written, once each and in the order written,
\* whatever the names and error texts of the streams are
C31_LogRoundTrip ==
    (WroteOwnLog /\ LogParsed) => found_ids = InvalidIds

\* C39: when the most recent run of test_streams found no invalid stream, a
\* fix_from_log called after it moves no stream to the other table, whatever
\* logs earlier runs left behind
C39_NoStaleRemediation ==
    (tspc = "done" /\ tally.invalid_streams = << >>) => other_table = {}

\* the ids of the ID entries of the log fix_from_log works on
LogIds == extract_ids(latest_log.lines)

\* C40: the only repository operations of fix_from_log are moves of ids taken
\* from the log, and once the log is parsed its ids are the ones handed to the
\* move, whatever another repository operation did
C40_OnlyMovesOfLoggedIds ==
    /\ \A k \in DOMAIN db_calls :
          /\ db_calls[k].proc = "Streams_Move_To_Other"
          /\ \E i \in DOMAIN LogIds : LogIds[i] = db_calls[k].arg
    /\ (latest_log.found /\ fxpc \in {"chunk", "done"}) => found_ids = LogIds

\* ------------------------------------------------------------- pool size claims
\* x brought into lo..hi
clamp(x, lo, hi) == IF x < lo THEN lo ELSE IF x > hi THEN hi ELSE x

\* C32: with no explicit count the worker count is clamp(2 * cpu_count, 4, 8),
\* an unknown cpu_count counting as 1; with an explicit count n it is
\* clamp(n, 1, 16); it is always within 1..16
C32_PoolSizeClamped ==
    mpc = "load" =>
        /\ threads_arg = << >> =>
              max_threads = clamp(2 * (IF cpu_count = 0 THEN 1 ELSE cpu_count), 4, 8)
        /\ threads_arg # << >> => max_threads = clamp(threads_arg[1], 1, 16)
        /\ max_threads \in 1..16

\* the constructor has run with a count below the floor, with one above the
\* ceiling, and with none on a machine whose doubled processor count is
\* strictly between the default's limits
C32_Witness ==
    /\ mpc = "load"
    /\ \/ threads_arg = <<0>> /\ max_threads = 1
       \/ threads_arg = <<17>> /\ max_threads = 16
       \/ threads_arg = << >> /\ cpu_count = 3 /\ max_threads = 6

\* ------------------------------------------------------------- cache claims
\* C33: within a run the stream_filters query of an owning user is executed
\* at most once, however often the user's filters are looked up and however
\* many rules the user has, none included
C33_OneQueryPerUser ==
    \A uid \in DOMAIN stream_filters : filter_queries[uid] <= 1

\* ------------------------------------------------------------- predicate builder claims
\* a clause whose value has not the shape its operator needs
MalformedClause(clause) ==
    \/ /\ clause.operator = "BETWEEN"
       /\ ~(clause.value.kind \in {"list", "tuple"} /\ Len(clause.value.items) = 2)
    \/ /\ clause.operator \in {"IN", "NOT IN"}
       /\ clause.value.kind \notin {"list", "tuple"}

\* C34: a BETWEEN whose value is not a list or tuple of exactly two elements,
\* or an IN or NOT IN whose value is not a list or tuple, makes the repository
\* method raise a ValueError, and no statement is executed
C34_MalformedPredicateRaises ==
    (where_out.done /\ \E k \in DOMAIN where_arg : MalformedClause(where_arg[k])) =>
        /\ where_out.raised
        /\ where_out.error = "ValueError"
        /\ where_out.executed = 0
        /\ where_out.query = << >>

\* a delete whose second clause is a BETWEEN with three values has raised
C34_Witness ==
    /\ where_out.done
    /\ where_out.api = "delete"
    /\ Len(where_arg) = 2
    /\ ~MalformedClause(where_arg[1])
    /\ where_arg[2].operator = "BETWEEN"
    /\ where_arg[2].value = [kind |-> "list", items |-> <<1, 2, 3>>]
    /\ where_out.raised

\* ------------------------------------------------------------- termination claims
\* a task waiting for a lock holds none, a task that has ended holds none, and
\* a lock held by a task is held inside one of its locked segments
LockDiscipline ==
    \A p \in ProviderIds :
        /\ tpc[p] \in {"lookup_wait", "insert_wait", "done", "queued", "none"} =>
              db_lock # p /\ thread_lock # p
        /\ db_lock = p => tpc[p] \in {"lookup", "insert", "update"}
        /\ ~(db_lock = p /\ thread_lock = p)

\* every submitted task has ended
TasksEnded == \A p \in providers : tpc[p] = "done"

\* C35: a provider task never takes a lock while it holds one and gives its
\* lock up on every way out of a locked segment, every submitted task ends,
\* and sync( ) reaches its final summary
C35_TasksEndAndSummaryReached ==
    /\ []LockDiscipline
    /\ (mpc = "collect") ~> TasksEnded
    /\ (mpc = "collect") ~> (mpc = "returned" /\ summary # NoResult)

\* the staging rows that carry the id of provider p
rows_of(p) == {row \in stream_temp : row.p_id = ProviderPool[p].id}

\* C36: a task whose outcome is (0, 0, name, error) has inserted no staging
\* row of its provider; a task whose outcome has no error has handed as many
\* rows to the bulk insert as the converted count it reports (none when that
\* count is 0), and its converted count is at most its fetched count
C36_OutcomeMatchesStaging ==
    \A p \in providers :
        future[p] # NoResult =>
            /\ future[p].error # "None" =>
                  future[p].total = 0 /\ future[p].filtered = 0 /\ rows_of(p) = {}
            /\ future[p].error = "None" =>
                  /\ Cardinality(rows_of(p)) = future[p].filtered
                  /\ future[p].filtered <= future[p].total

\* C37: the parse loop ends on every playlist with its line index (which only
\* grows) at most the number of lines, and processed count + skipped count is
\* the number of lines that start with #EXTINF:-1: every entry is counted
\* once, as committed or as skipped
C37_EveryEntryCountedOnce ==
    gpc = "done" =>
        /\ parsed.i <= Len(m3u_content)
        /\ parsed.processed_count + parsed.skipped_count = Cardinality(MarkerLines)
        /\ Len(parsed.commits) = parsed.processed_count
        /\ Len(parsed.skips) = parsed.skipped_count
        /\ \A k \in MarkerLines :
              Cardinality({a \in 1..Len(parsed.commits) : parsed.commits[a].line = k})
              + Cardinality({a \in 1..Len(parsed.skips) : parsed.skips[a] = k}) = 1

\* a playlist of MaxLines lines with a committed entry, an entry given up at
\* the next marker and an entry given up at the end of the input
C37_Witness ==
    /\ gpc = "done"
    /\ Len(m3u_content) = MaxLines
    /\ Cardinality(MarkerLines) = 3
    /\ parsed.processed_count = 1
    /\ parsed.skipped_count = 2
    /\ parsed.i = MaxLines

\* the group label that goes with a stream kind
group_of_kind(stream_type) ==
    IF stream_type = 5 THEN "series" ELSE IF stream_type = 3 THEN "vod" ELSE "live"

\* C38: in every canonical stream get_streams hands back, from a playlist or
\* from the API, the group label agrees with the stream kind: series with
\* kind 5, vod with kind 3, live with every other kind
C38_GroupAgreesWithKind ==
    gpc = "done" =>
        \A id \in DOMAIN get_out.combined :
            get_out.combined[id].stream_group
                = group_of_kind(get_out.combined[id].stream_type)
=============================================================================
